---- MODULE Spec2Model ----
(***************************************************************************)
(* The vtpc user-space block cache (lab/vtpc/lib/vtpc.c): a fixed pool of  *)
(* cache blocks and a fixed table of open files in front of a backing      *)
(* store opened with O_DIRECT.  Every vtpc_* call is one action; the       *)
(* backing store (files, raw descriptors, failing calls) is the            *)
(* environment.                                                            *)
(***************************************************************************)
EXTENDS Integers, Sequences, FiniteSets, TLC

\* Program constants, scaled down (vtpc.c has 4096, 1024 and 128).
BLOCK_SIZE == 3
CACHE_SIZE_BLOCKS == 2
MAX_OPEN_FILES == 2

\* Bounds of the model.
MaxOps == 3         \* calls in a run of an arbitrary caller
MaxBlocks == 3      \* the longest transfer a caller asks for, in blocks
NumVals == 2        \* distinct buffers a caller writes
MaxFaults == 1      \* backing-store calls that may fail within one vtpc call

Slots == 0 .. CACHE_SIZE_BLOCKS - 1
Handles == 0 .. MAX_OPEN_FILES - 1
\* Handle arguments a caller may pass: the table's indices, one below, one above.
HandleArgs == -1 .. MAX_OPEN_FILES

\* The backing store: two regular files, and the process's standard input,
\* which raw descriptor 0 names until the process closes it.
Paths == {"A", "B"}
Stdin == "stdin"
Closed == "closed"
\* Raw descriptor numbers: 0, and the lowest numbers above the standard streams.
OsFdBase == 3
OsFds == {0} \cup (OsFdBase .. OsFdBase + MAX_OPEN_FILES - 1)

\* A byte of memory nobody has written yet (posix_memalign does not clear).
Junk == -1
\* cache[i].data before init_cache has allocated it.
NULL == <<>>
\* The "return value" of a call that never returns (the process died in it).
NoReturn == -2

Min(a, b) == IF a < b THEN a ELSE b
Max(a, b) == IF a > b THEN a ELSE b
Minimum(S) == CHOOSE x \in S : \A y \in S : x <= y

SEEK_SET == "SEEK_SET"
SEEK_CUR == "SEEK_CUR"
SEEK_END == "SEEK_END"

VARIABLES
    cache_initialized,  \* static int cache_initialized
    cache,              \* static CacheBlock cache[CACHE_SIZE_BLOCKS]
    open_files,         \* static FileContext open_files[MAX_OPEN_FILES]
    disk,               \* backing store: path -> the file's bytes
    os_fds,             \* kernel descriptor table: raw descriptor -> path
    alive,              \* FALSE once the process has died of a signal
    hist,               \* the calls made so far, each with what it returned
    threads,            \* where each thread stands in the call it is making
    walk                \* the traversal of the graph benchmark

vars == <<cache_initialized, cache, open_files, disk, os_fds, alive, hist, threads,
          walk>>

----------------------------------------------------------------------------
(* The environment: the calls vtpc.c makes into the operating system.      *)

\* Each vtpc call draws a plan: the outcome of its k-th backing-store call.
\* "short" is a write that transfers fewer bytes than asked.  calls0 is the
\* trace of the call when nothing fails: a failure never adds calls, so the
\* plans over its positions are all the plans that matter.
IsBlockWrite(c) == c.name \in {"evict_write", "pwrite"}

Plans(calls0, nf) ==
    LET N == Len(calls0) IN
    UNION {
        {[k \in 1 .. N |-> IF k \in S THEN kind[k] ELSE "ok"] :
            kind \in {q \in [S -> {"err", "short"}] :
                        \A k \in S : q[k] = "short" => IsBlockWrite(calls0[k])}} :
        S \in {T \in SUBSET (1 .. N) : Cardinality(T) <= nf}}

AllOk == <<>>

Outcome(io, k) == IF k \in DOMAIN io THEN io[k] ELSE "ok"

PathOf(fd) == IF fd \in DOMAIN os_fds THEN os_fds[fd] ELSE Closed

\* pread(fd, buf, BLOCK_SIZE, off) on a regular file: the bytes it returns.
OsRead(file, off) ==
    IF off >= Len(file) THEN <<>>
    ELSE SubSeq(file, off + 1, Min(off + BLOCK_SIZE, Len(file)))

\* The file after writing `bytes` at offset `off`; a hole reads as zeros.
OsWrite(file, off, bytes) ==
    [i \in 1 .. Max(Len(file), off + Len(bytes)) |->
        IF i > off /\ i <= off + Len(bytes) THEN bytes[i - off]
        ELSE IF i <= Len(file) THEN file[i] ELSE 0]

\* The file after ftruncate(fd, len).
OsTruncate(file, len) ==
    [i \in 1 .. len |-> IF i <= Len(file) THEN file[i] ELSE 0]

\* Bytes a short write of a block transfers.
ShortLen == BLOCK_SIZE - 1

\* write/pwrite of one block through raw descriptor fd at offset off: the
\* backing store afterwards, and the call's return value.
OsWriteBlock(d, fd, off, data, out) ==
    LET p == PathOf(fd) IN
    IF p \notin Paths \/ out = "err" THEN [disk |-> d, r |-> -1]
    ELSE IF out = "short"
         THEN [disk |-> [d EXCEPT ![p] = OsWrite(d[p], off, SubSeq(data, 1, ShortLen))],
               r |-> ShortLen]
         ELSE [disk |-> [d EXCEPT ![p] = OsWrite(d[p], off, data)], r |-> BLOCK_SIZE]

\* pread of one block: << return value, bytes >>; -1 on failure.
OsReadBlock(d, fd, off, out) ==
    LET p == PathOf(fd) IN
    IF p \notin Paths \/ out = "err" THEN [r |-> -1, bytes |-> <<>>]
    ELSE [r |-> Len(OsRead(d[p], off)), bytes |-> OsRead(d[p], off)]

----------------------------------------------------------------------------
(* The pool.  A vtpc call works on m = [cache, disk, calls, evicted]: the   *)
(* pool, the backing store, the backing-store calls issued so far by this  *)
(* call, and the blocks it has evicted.                                    *)

\* memcpy(data + off, bytes, Len(bytes))
SetData(data, off, bytes) ==
    [i \in 1 .. Len(data) |->
        IF i > off /\ i <= off + Len(bytes) THEN bytes[i - off] ELSE data[i]]

\* A slot in static storage before init_cache, and after init_cache.
ZeroBlock ==
    [data |-> NULL, fd |-> 0, block_index |-> 0, dirty |-> FALSE,
     frequency |-> 0, valid |-> FALSE]

FreshData == [i \in 1 .. BLOCK_SIZE |-> Junk]

\* The buffer of a slot that has been invalidated keeps the bytes of its last
\* occupant.  Nothing may depend on them: they are modelled as Junk, so that
\* any use of them shows (Junk equals no byte a caller wrote or a file holds).
Stale == FreshData

InitBlock(b) ==
    [b EXCEPT !.data = FreshData, !.valid = FALSE, !.dirty = FALSE,
              !.frequency = 0, !.fd = -1]

ZeroFile == [os_fd |-> 0, current_offset |-> 0, file_size |-> 0]

Called(m, name, fd, off, r) ==
    [m EXCEPT !.calls = Append(@, [name |-> name, r |-> r])]

NextOutcome(m, io) == Outcome(io, Len(m.calls) + 1)

RECURSIVE FindFrom(_, _, _, _)
FindFrom(c, i, fd, block_index) ==
    IF i = CACHE_SIZE_BLOCKS THEN -1
    ELSE IF c[i].valid /\ c[i].fd = fd /\ c[i].block_index = block_index THEN i
    ELSE FindFrom(c, i + 1, fd, block_index)

\* A lookup that never finds a block.
FindNothing(c, fd, block_index) == -1

\* A lookup that takes a block of any descriptor for the block it looks for.
FindAnyOwner(c, fd, block_index) ==
    IF \E i \in Slots : c[i].valid /\ c[i].block_index = block_index
    THEN Minimum({i \in Slots : c[i].valid /\ c[i].block_index = block_index})
    ELSE -1

find_cache_block(c, fd, block_index) == FindFrom(c, 0, fd, block_index)

\* The scan of evict_block: the first invalid slot met, else the first slot
\* holding the highest frequency.
\* An eviction scan that takes the least used slot.
EvictLeastUsed(c, i, candidate, max_freq) ==
    LET invalid == {x \in Slots : ~c[x].valid} IN
    [invalid |-> IF invalid = {} THEN -1 ELSE Minimum(invalid),
     candidate |-> CHOOSE x \in Slots : \A y \in Slots : c[x].frequency <= c[y].frequency]

RECURSIVE EvictScan(_, _, _, _)
EvictScan(c, i, candidate, max_freq) ==
    IF i = CACHE_SIZE_BLOCKS THEN [invalid |-> -1, candidate |-> candidate]
    ELSE IF ~c[i].valid THEN [invalid |-> i, candidate |-> candidate]
    ELSE IF candidate = -1 \/ c[i].frequency > max_freq
         THEN EvictScan(c, i + 1, i, c[i].frequency)
         ELSE EvictScan(c, i + 1, candidate, max_freq)

\* An eviction that drops a dirty block instead of writing it back.
EvictWithoutWriteBack(m, candidate, io) == m


\* An eviction that writes the slot back whether it is dirty or not.
EvictWriteAlways(m, candidate, io) ==
    LET cb == m.cache[candidate]
        off == cb.block_index * BLOCK_SIZE
        w == OsWriteBlock(m.disk, cb.fd, off, cb.data, NextOutcome(m, io))
    IN  Called([m EXCEPT !.disk = w.disk], "evict_write", cb.fd, off, w.r)

\* The write-back of the slot chosen for eviction; its result is only printed.
EvictWriteBack(m, candidate, io) ==
    LET cb == m.cache[candidate]
        off == cb.block_index * BLOCK_SIZE
        w == OsWriteBlock(m.disk, cb.fd, off, cb.data, NextOutcome(m, io))
    IN  IF cb.dirty
        THEN Called([m EXCEPT !.disk = w.disk], "evict_write", cb.fd, off, w.r)
        ELSE m

\* What the backing store of raw descriptor fd holds at offset off.
Stored(d, fd, off) ==
    IF PathOf(fd) \in Paths THEN OsRead(d[PathOf(fd)], off) ELSE <<>>

\* The record of an eviction: the block that left slot `candidate` of pool c,
\* and what the backing store d held at its offset once evict_block was done
\* with it.
Evicted(c, candidate, d) ==
    [fd |-> c[candidate].fd, block_index |-> c[candidate].block_index,
     dirty |-> c[candidate].dirty, data |-> c[candidate].data,
     stored |-> Stored(d, c[candidate].fd, c[candidate].block_index * BLOCK_SIZE)]

\* An eviction that writes the candidate back and leaves it valid.
EvictKeepValid(m, io) ==
    LET s == EvictScan(m.cache, 0, -1, 0)
        wb == EvictWriteBack(m, s.candidate, io)
    IN  IF s.invalid # -1 THEN [idx |-> s.invalid, m |-> m]
        ELSE [idx |-> s.candidate,
              m |-> [wb EXCEPT !.evicted = Append(@, Evicted(m.cache, s.candidate, wb.disk))]]

evict_block(m, io) ==
    LET s == EvictScan(m.cache, 0, -1, 0)
        wb == EvictWriteBack(m, s.candidate, io)
    IN
    IF s.invalid # -1 THEN [idx |-> s.invalid, m |-> m]
    ELSE IF s.candidate # -1
    THEN [idx |-> s.candidate,
          m |-> [wb EXCEPT
                    !.cache[s.candidate].data = Stale,
                    !.cache[s.candidate].valid = FALSE,
                    !.cache[s.candidate].dirty = FALSE,
                    !.cache[s.candidate].frequency = 0,
                    !.evicted = Append(@, Evicted(m.cache, s.candidate, wb.disk))]]
    ELSE [idx |-> 0, m |-> m]

\* A miss that zero-fills the whole block, whatever pread returned.
ZeroFilledWhole(bytes) == [i \in 1 .. BLOCK_SIZE |-> 0]

\* A miss that leaves the rest of the buffer as it was.
StaleFilled(bytes) ==
    [i \in 1 .. BLOCK_SIZE |-> IF i <= Len(bytes) THEN bytes[i] ELSE Junk]

\* The bytes of a block as pread left them, the rest zero-filled (r >= 0).
ZeroFilled(bytes) ==
    [i \in 1 .. BLOCK_SIZE |-> IF i <= Len(bytes) THEN bytes[i] ELSE 0]

\* A repopulation that leaves the counter at 0.
PopulateUncounted(m, idx, fd, block_idx, data) ==
    [m EXCEPT !.cache[idx] =
        [data |-> data, fd |-> fd, block_index |-> block_idx, dirty |-> FALSE,
         frequency |-> 0, valid |-> TRUE]]

\* A repopulation that marks the slot dirty.
PopulateDirty(m, idx, fd, block_idx, data) ==
    [m EXCEPT !.cache[idx] =
        [data |-> data, fd |-> fd, block_index |-> block_idx, dirty |-> TRUE,
         frequency |-> 1, valid |-> TRUE]]

Populate(m, idx, fd, block_idx, data) ==
    [m EXCEPT !.cache[idx] =
        [data |-> data, fd |-> fd, block_index |-> block_idx, dirty |-> FALSE,
         frequency |-> 1, valid |-> TRUE]]

\* One more pass of a chunk loop begins: `done` bytes have been transferred
\* and Len(m.calls) backing-store calls issued; the pass finds the pool and
\* the backing store as m has them.
Chunk(m, done) ==
    [m EXCEPT !.chunks = Append(@, [calls |-> Len(m.calls), done |-> done,
                                    cache |-> m.cache, disk |-> m.disk])]

\* A pass that transfers one byte, whatever is left of the block.
ToCopyOneByte(offset_in_block, left) == 1

\* The bytes one pass transfers: up to the end of the block, and no more than
\* is left of the request.
ToCopy(offset_in_block, left) == Min(BLOCK_SIZE - offset_in_block, left)

RECURSIVE ReadLoop(_, _, _, _, _, _, _)

\* One pass of the chunk loop of vtpc_read, from machine state m.
ReadPass(m, os_fd, offset, count, bytes_read, buf, io) ==
    LET block_idx == (offset + bytes_read) \div BLOCK_SIZE
        offset_in_block == (offset + bytes_read) % BLOCK_SIZE
        to_copy == ToCopy(offset_in_block, count - bytes_read)
        hit == find_cache_block(m.cache, os_fd, block_idx)
        ev == evict_block(m, io)
        disk_offset == block_idx * BLOCK_SIZE
        rd == OsReadBlock(ev.m.disk, os_fd, disk_offset, NextOutcome(ev.m, io))
        m1 == Called(ev.m, "pread", os_fd, disk_offset, rd.r)
        m2 == IF hit # -1
              THEN [m EXCEPT !.cache[hit].frequency = @ + 1]
              ELSE Populate(m1, ev.idx, os_fd, block_idx, ZeroFilled(rd.bytes))
        cache_idx == IF hit # -1 THEN hit ELSE ev.idx
        copied == SubSeq(m2.cache[cache_idx].data, offset_in_block + 1,
                         offset_in_block + to_copy)
    IN  IF hit = -1 /\ rd.r = -1
        THEN [m |-> m1, ret |-> -1, buf |-> buf]
        ELSE ReadLoop(m2, os_fd, offset, count, bytes_read + to_copy,
                      buf \o copied, io)

\* The chunk loop of vtpc_read.  buf is what has been copied to the caller.
\* (The state a pass starts from is bound as a value, so that it is computed
\* once whatever the number of places the pass reads it in.)
ReadLoop(m0, os_fd, offset, count, bytes_read, buf, io) ==
    IF bytes_read >= count THEN [m |-> m0, ret |-> bytes_read, buf |-> buf]
    ELSE CHOOSE res \in {ReadPass(Chunk(m, bytes_read), os_fd, offset, count,
                                  bytes_read, buf, io) : m \in {m0}} : TRUE

RECURSIVE WriteLoop(_, _, _, _, _, _, _)

\* One pass of the chunk loop of vtpc_write, from machine state m.
WritePass(m, os_fd, offset, count, bytes_written, user_buf, io) ==
    LET block_idx == (offset + bytes_written) \div BLOCK_SIZE
        offset_in_block == (offset + bytes_written) % BLOCK_SIZE
        to_copy == ToCopy(offset_in_block, count - bytes_written)
        hit == find_cache_block(m.cache, os_fd, block_idx)
        ev == evict_block(m, io)
        disk_offset == block_idx * BLOCK_SIZE
        rd == OsReadBlock(ev.m.disk, os_fd, disk_offset, NextOutcome(ev.m, io))
        fetched == IF rd.r = -1 THEN ZeroFilled(<<>>) ELSE ZeroFilled(rd.bytes)
        m1 == IF to_copy < BLOCK_SIZE
              THEN Populate(Called(ev.m, "pread", os_fd, disk_offset, rd.r),
                            ev.idx, os_fd, block_idx, fetched)
              ELSE Populate(ev.m, ev.idx, os_fd, block_idx, ev.m.cache[ev.idx].data)
        m2 == IF hit # -1 THEN [m EXCEPT !.cache[hit].frequency = @ + 1] ELSE m1
        cache_idx == IF hit # -1 THEN hit ELSE ev.idx
        src == SubSeq(user_buf, bytes_written + 1, bytes_written + to_copy)
        m3 == [m2 EXCEPT !.cache[cache_idx].data = SetData(@, offset_in_block, src),
                         !.cache[cache_idx].dirty = TRUE]
    IN  IF m.cache[cache_idx].data = NULL
        THEN [m |-> m, ret |-> NoReturn, crash |-> TRUE]
        ELSE WriteLoop(m3, os_fd, offset, count, bytes_written + to_copy,
                       user_buf, io)

\* The chunk loop of vtpc_write.  crash: the process died copying through a
\* data pointer that init_cache never allocated.
WriteLoop(m0, os_fd, offset, count, bytes_written, user_buf, io) ==
    IF bytes_written >= count THEN [m |-> m0, ret |-> bytes_written, crash |-> FALSE]
    ELSE CHOOSE res \in {WritePass(Chunk(m, bytes_written), os_fd, offset, count,
                                   bytes_written, user_buf, io) : m \in {m0}} : TRUE

\* The write-back loop of vtpc_fsync over slots i, i+1, ...
RECURSIVE FlushFrom(_, _, _, _)
FlushFrom(m, i, os_fd, io) ==
    IF i = CACHE_SIZE_BLOCKS THEN [m |-> m, ret |-> 0]
    ELSE IF m.cache[i].valid /\ m.cache[i].fd = os_fd /\ m.cache[i].dirty
    THEN LET off == m.cache[i].block_index * BLOCK_SIZE
             w == OsWriteBlock(m.disk, os_fd, off, m.cache[i].data, NextOutcome(m, io))
             m1 == Called([m EXCEPT !.disk = w.disk], "pwrite", os_fd, off, w.r)
         IN  IF w.r = -1 THEN [m |-> m1, ret |-> -1]
             ELSE FlushFrom([m1 EXCEPT !.cache[i].dirty = FALSE], i + 1, os_fd, io)
    ELSE FlushFrom(m, i + 1, os_fd, io)

\* A flush that writes nothing back.
FsyncWithoutFlush(m, os_fd, file_size, io) == [m |-> m, ret |-> 0]

\* A flush that marks the descriptor's blocks clean and writes none of them.
FsyncCleanUnwritten(m, os_fd, file_size, io) ==
    [m |-> [m EXCEPT !.cache = [i \in Slots |->
                IF m.cache[i].valid /\ m.cache[i].fd = os_fd
                THEN [m.cache[i] EXCEPT !.dirty = FALSE] ELSE m.cache[i]]],
     ret |-> 0]

\* The body of vtpc_fsync after its handle check.
FsyncBody(m, os_fd, file_size, io) ==
    LET fl == FlushFrom(m, 0, os_fd, io)
        p == PathOf(os_fd)
        res == IF p = Closed \/ NextOutcome(fl.m, io) = "err" THEN -1 ELSE 0
        m1 == Called(fl.m, "fsync", os_fd, 0, res)
        tr == IF p \notin Paths \/ NextOutcome(m1, io) = "err" THEN -1 ELSE 0
        m2 == Called(IF tr = 0
                     THEN [m1 EXCEPT !.disk[p] = OsTruncate(@, file_size)]
                     ELSE m1,
                     "ftruncate", os_fd, file_size, tr)
    IN  IF fl.ret = -1 THEN fl
        ELSE IF res = -1 THEN [m |-> m1, ret |-> -1]
        ELSE [m |-> m2, ret |-> res]

----------------------------------------------------------------------------
(* The calls.  Each appends its record to hist: its arguments, the handle  *)
(* table it found (before), what it returned (ret, err, and rbuf for the   *)
(* bytes a read copied out), the backing-store calls it issued, and the    *)
(* blocks it evicted.                                                      *)

Machine == [cache |-> cache, disk |-> disk, calls |-> <<>>, evicted |-> <<>>,
            chunks |-> <<>>]

\* What a caller writes: `count` bytes, all different, none of them 0.
Stride == 16
Pattern(v, count) == [k \in 1 .. count |-> (v + 1) * Stride + k]

NoCall ==
    [op |-> "none", h |-> -1, count |-> 0, off |-> 0, whence |-> "", path |-> "",
     trunc |-> FALSE, wbuf |-> <<>>, before |-> <<>>,
     ret |-> 0, err |-> "", rbuf |-> <<>>, calls |-> <<>>, evicted |-> <<>>,
     chunks |-> <<>>]

Returned(call, ret, err) == [call EXCEPT !.ret = ret, !.err = err]

\* The errno a failed backing-store call leaves behind.
OsErr == "EIO"

\* A handle check that only looks at the range.
BadHandleByRange(fd) == fd < 0 \/ fd >= MAX_OPEN_FILES

BadHandle(fd) ==
    fd < 0 \/ fd >= MAX_OPEN_FILES \/ open_files[fd].os_fd = -1

\* The call record of a call on handle fd.
CallOn(op, fd) == [NoCall EXCEPT !.op = op, !.h = fd, !.before = open_files]

\* No traversal is under way.
NoWalk == [pc |-> "off"]

\* The threads of the caller, and a thread that is in no call.
Threads == {"T1", "T2"}
Idle == [pc |-> "idle", op |-> "", h |-> -1, os_fd |-> -1, offset |-> 0, idx |-> -1]

Init ==
    /\ cache_initialized = FALSE
    /\ cache = [i \in Slots |-> ZeroBlock]
    /\ open_files = [h \in Handles |-> ZeroFile]
    /\ disk = [p \in Paths |-> <<>>]
    /\ os_fds = [fd \in OsFds |-> IF fd = 0 THEN Stdin ELSE Closed]
    /\ alive = TRUE
    /\ hist = <<>>
    /\ threads = [t \in Threads |-> Idle]
    /\ walk = NoWalk

\* A read that asks the chunk loop for all of `count`.
Unclamped(offset, count, file_size) == count

\* vtpc_read's count once clamped to the bytes left before the tracked size.
Clamped(offset, count, file_size) ==
    IF offset + count > file_size THEN file_size - offset ELSE count

vtpc_read(fd, count, nf) ==
    LET call == [CallOn("read", fd) EXCEPT !.count = count] IN
    /\ alive
    /\ IF BadHandle(fd)
       THEN /\ hist' = Append(hist, Returned(call, -1, "EBADF"))
            /\ UNCHANGED <<cache, open_files, disk>>
       ELSE LET os_fd == open_files[fd].os_fd
                offset == open_files[fd].current_offset
                file_size == open_files[fd].file_size
                clamped == Clamped(offset, count, file_size)
            IN  IF offset >= file_size
                THEN /\ hist' = Append(hist, Returned(call, 0, ""))
                     /\ UNCHANGED <<cache, open_files, disk>>
                ELSE \E io \in Plans(ReadLoop(Machine, os_fd, offset, clamped, 0,
                                              <<>>, AllOk).m.calls, nf) :
                     \E res \in {ReadLoop(Machine, os_fd, offset, clamped, 0, <<>>, io)} :
                     /\ cache' = res.m.cache
                     /\ disk' = res.m.disk
                     /\ open_files' =
                          IF res.ret = -1 THEN open_files
                          ELSE [open_files EXCEPT ![fd].current_offset = @ + res.ret]
                     /\ hist' = Append(hist,
                          [Returned(call, res.ret, IF res.ret = -1 THEN OsErr ELSE "")
                             EXCEPT !.rbuf = res.buf, !.calls = res.m.calls,
                                    !.evicted = res.m.evicted,
                                    !.chunks = res.m.chunks])
    /\ UNCHANGED <<cache_initialized, os_fds, alive>>

\* A write that moves neither cursor nor tracked size.
AdvanceNothing(of, fd, n) == of

\* A write that moves the cursor and leaves the tracked size alone.
AdvanceCursorOnly(of, fd, n) == [of EXCEPT ![fd].current_offset = @ + n]

\* A write that moves the cursor of every entry of the table.
AdvanceEvery(of, fd, n) ==
    [h \in Handles |->
        [of[h] EXCEPT !.current_offset = @ + n,
                      !.file_size = Max(@, of[h].current_offset + n)]]

\* The end of vtpc_write: the cursor moves by the bytes written, and the
\* tracked size follows it when the cursor has passed it.
Advance(of, fd, n) ==
    LET moved == [of EXCEPT ![fd].current_offset = @ + n] IN
    IF moved[fd].current_offset > moved[fd].file_size
    THEN [moved EXCEPT ![fd].file_size = moved[fd].current_offset]
    ELSE moved

vtpc_write(fd, user_buf, nf) ==
    LET count == Len(user_buf)
        call == [CallOn("write", fd) EXCEPT !.count = count, !.wbuf = user_buf] IN
    /\ alive
    /\ IF BadHandle(fd)
       THEN /\ hist' = Append(hist, Returned(call, -1, "EBADF"))
            /\ UNCHANGED <<cache, open_files, disk, alive>>
       ELSE LET os_fd == open_files[fd].os_fd
                offset == open_files[fd].current_offset
            IN  \E io \in Plans(WriteLoop(Machine, os_fd, offset, count, 0,
                                          user_buf, AllOk).m.calls, nf) :
                \E res \in {WriteLoop(Machine, os_fd, offset, count, 0, user_buf, io)} :
                /\ cache' = res.m.cache
                /\ disk' = res.m.disk
                /\ alive' = ~res.crash
                /\ open_files' = IF res.crash THEN open_files
                                 ELSE Advance(open_files, fd, res.ret)
                /\ hist' = Append(hist,
                     [Returned(call, res.ret, IF res.crash THEN "SIGSEGV" ELSE "")
                        EXCEPT !.calls = res.m.calls, !.evicted = res.m.evicted,
                               !.chunks = res.m.chunks])
    /\ UNCHANGED <<cache_initialized, os_fds>>

\* A seek that takes every offset as absolute.
SeekFromStart(f, offset, whence) == offset

\* vtpc_lseek's new_offset for the table entry f and one of the three whences.
SeekTarget(f, offset, whence) ==
    IF whence = SEEK_SET THEN offset
    ELSE IF whence = SEEK_CUR THEN f.current_offset + offset
    ELSE f.file_size + offset

vtpc_lseek(fd, offset, whence) ==
    LET call == [CallOn("lseek", fd) EXCEPT !.off = offset, !.whence = whence] IN
    /\ alive
    /\ IF BadHandle(fd)
       THEN /\ hist' = Append(hist, Returned(call, -1, "EBADF"))
            /\ UNCHANGED open_files
       ELSE LET new_offset == SeekTarget(open_files[fd], offset, whence)
            IN  IF whence \notin {SEEK_SET, SEEK_CUR, SEEK_END} \/ new_offset < 0
                THEN /\ hist' = Append(hist, Returned(call, -1, "EINVAL"))
                     /\ UNCHANGED open_files
                ELSE /\ open_files' = [open_files EXCEPT ![fd].current_offset = new_offset]
                     /\ hist' = Append(hist, Returned(call, new_offset, ""))
    /\ UNCHANGED <<cache_initialized, cache, disk, os_fds, alive>>

vtpc_fsync(fd, nf) ==
    LET call == CallOn("fsync", fd) IN
    /\ alive
    /\ IF BadHandle(fd)
       THEN /\ hist' = Append(hist, Returned(call, -1, "EBADF"))
            /\ UNCHANGED <<cache, disk>>
       ELSE \E io \in Plans(FsyncBody(Machine, open_files[fd].os_fd,
                                      open_files[fd].file_size, AllOk).m.calls, nf) :
            \E res \in {FsyncBody(Machine, open_files[fd].os_fd,
                                   open_files[fd].file_size, io)} :
            /\ cache' = res.m.cache
            /\ disk' = res.m.disk
            /\ hist' = Append(hist,
                 [Returned(call, res.ret, IF res.ret = -1 THEN OsErr ELSE "")
                    EXCEPT !.calls = res.m.calls])
    /\ UNCHANGED <<cache_initialized, open_files, os_fds, alive>>

\* A close that leaves the descriptor's blocks in the pool.
InvalidateNothing(c, os_fd) == c

\* A close that invalidates only the first block of the descriptor it finds.
InvalidateFirst(c, os_fd) ==
    LET owned == {i \in Slots : c[i].valid /\ c[i].fd = os_fd} IN
    [i \in Slots |->
        IF i \in owned /\ i = Minimum(owned)
        THEN [c[i] EXCEPT !.valid = FALSE, !.dirty = FALSE, !.data = Stale]
        ELSE c[i]]

\* A close that invalidates the descriptor's blocks and leaves their dirty flags.
InvalidateKeepDirty(c, os_fd) ==
    [i \in Slots |->
        IF c[i].valid /\ c[i].fd = os_fd
        THEN [c[i] EXCEPT !.valid = FALSE, !.data = Stale]
        ELSE c[i]]

\* The invalidation loop of vtpc_close.
Invalidate(c, os_fd) ==
    [i \in Slots |->
        IF c[i].valid /\ c[i].fd = os_fd
        THEN [c[i] EXCEPT !.valid = FALSE, !.dirty = FALSE, !.data = Stale]
        ELSE c[i]]

\* close(os_fd): the descriptor is released even when close reports an error.
OsClose(fds, os_fd) == [fd \in OsFds |-> IF fd = os_fd THEN Closed ELSE fds[fd]]

vtpc_close(fd, nf) ==
    LET call == CallOn("close", fd) IN
    /\ alive
    /\ IF BadHandle(fd)
       THEN /\ hist' = Append(hist, Returned(call, -1, "EBADF"))
            /\ UNCHANGED <<cache, open_files, disk, os_fds>>
       ELSE \E io \in Plans(Append(FsyncBody(Machine, open_files[fd].os_fd,
                                             open_files[fd].file_size, AllOk).m.calls,
                                   [name |-> "close", r |-> 0]), nf) :
            \E fs \in {FsyncBody(Machine, open_files[fd].os_fd,
                                  open_files[fd].file_size, io)} :
            LET os_fd == open_files[fd].os_fd
                res == IF PathOf(os_fd) = Closed \/ NextOutcome(fs.m, io) = "err"
                       THEN -1 ELSE 0
            IN  /\ cache' = Invalidate(fs.m.cache, os_fd)
                /\ disk' = fs.m.disk
                /\ os_fds' = OsClose(os_fds, os_fd)
                /\ open_files' = [open_files EXCEPT ![fd].os_fd = -1]
                /\ hist' = Append(hist,
                     [Returned(call, res, IF res = -1 THEN OsErr ELSE "")
                        EXCEPT !.calls = Called(fs.m, "close", os_fd, 0, res).calls])
    /\ UNCHANGED <<cache_initialized, alive>>

\* init_cache, with posix_memalign failing at slot fail_at (at none: -1).
init_cache(c, fail_at) ==
    [i \in Slots |-> IF fail_at = -1 \/ i < fail_at THEN InitBlock(c[i]) ELSE c[i]]

\* A scan of the table that never reaches its last entry.
FreeHandlesButLast(of) == {i \in Handles \ {MAX_OPEN_FILES - 1} : of[i].os_fd = -1}

\* A scan of the table that takes every entry for free.
FreeHandlesAll(of) == Handles

FreeHandles(of) == {i \in Handles : of[i].os_fd = -1}

vtpc_open(path, trunc, nf) ==
    LET call == [NoCall EXCEPT !.op = "open", !.path = path, !.trunc = trunc,
                               !.before = open_files] IN
    /\ alive
    /\ \E fail_at \in IF cache_initialized \/ nf = 0 THEN {-1} ELSE {-1} \cup Slots :
       IF fail_at # -1
       THEN /\ cache' = init_cache(cache, fail_at)
            /\ hist' = Append(hist, Returned(call, -1, "ENOMEM"))
            /\ UNCHANGED <<cache_initialized, open_files, disk, os_fds>>
       ELSE
       LET c1 == IF cache_initialized THEN cache ELSE init_cache(cache, -1)
           of1 == IF cache_initialized THEN open_files
                  ELSE [h \in Handles |-> [open_files[h] EXCEPT !.os_fd = -1]]
       IN
       /\ cache_initialized' = TRUE
       /\ cache' = c1
       /\ IF FreeHandles(of1) = {}
          THEN /\ hist' = Append(hist, Returned(call, -1, "EMFILE"))
               /\ open_files' = of1
               /\ UNCHANGED <<disk, os_fds>>
          ELSE \E io \in Plans(<<[name |-> "open"], [name |-> "fstat"]>>, nf) :
               LET handle == Minimum(FreeHandles(of1))
                   free == {fd \in OsFds : os_fds[fd] = Closed}
                   opened == free # {} /\ Outcome(io, 1) # "err"
                   os_fd == IF opened THEN Minimum(free) ELSE -1
                   d1 == IF opened /\ trunc THEN [disk EXCEPT ![path] = <<>>] ELSE disk
                   st == IF Outcome(io, 2) = "err" THEN -1 ELSE 0
                   c_open == <<[name |-> "open", r |-> os_fd]>>
                   c_stat == Append(c_open, [name |-> "fstat", r |-> st])
               IN
               /\ disk' = d1
               /\ IF ~opened
                  THEN /\ hist' = Append(hist,
                            [Returned(call, -1, OsErr) EXCEPT !.calls = c_open])
                       /\ open_files' = of1
                       /\ UNCHANGED os_fds
                  ELSE IF st = -1
                  THEN /\ hist' = Append(hist,
                            [Returned(call, -1, OsErr) EXCEPT !.calls =
                                Append(c_stat, [name |-> "close", r |-> 0])])
                       /\ open_files' = of1
                       /\ UNCHANGED os_fds
                  ELSE /\ hist' = Append(hist,
                            [Returned(call, handle, "") EXCEPT !.calls = c_stat])
                       /\ open_files' = [of1 EXCEPT ![handle] =
                            [os_fd |-> os_fd, current_offset |-> 0,
                             file_size |-> Len(d1[path])]]
                       /\ os_fds' = [os_fds EXCEPT ![os_fd] = path]
    /\ UNCHANGED alive

----------------------------------------------------------------------------
(* Callers.  A caller E names the calls it makes and the arguments it      *)
(* draws them from; a script is the sequence of callers of a run: its k-th *)
(* call is one of script[k].                                               *)

Ops == {"open", "close", "read", "write", "lseek", "fsync"}

\* The caller of the next call of a run that follows `script`.
Caller(script) == script[Len(hist) + 1]
More(script) == Len(hist) < Len(script)

\* A caller passing a handle outside the table passes one choice of the rest.
ArgsFor(fd, args) == IF fd \in Handles THEN args ELSE {CHOOSE a \in args : TRUE}

DoOpen(S) ==
    /\ More(S) /\ "open" \in Caller(S).ops
    /\ UNCHANGED <<threads, walk>>
    /\ \E path \in Caller(S).paths, trunc \in Caller(S).trunc :
          vtpc_open(path, trunc, Caller(S).faults)

DoClose(S) ==
    /\ More(S) /\ "close" \in Caller(S).ops
    /\ UNCHANGED <<threads, walk>>
    /\ \E fd \in Caller(S).handles : vtpc_close(fd, Caller(S).faults)

DoRead(S) ==
    /\ More(S) /\ "read" \in Caller(S).ops
    /\ UNCHANGED <<threads, walk>>
    /\ \E fd \in Caller(S).handles : \E count \in ArgsFor(fd, Caller(S).counts) :
          vtpc_read(fd, count, Caller(S).faults)

DoWrite(S) ==
    /\ More(S) /\ "write" \in Caller(S).ops
    /\ UNCHANGED <<threads, walk>>
    /\ \E fd \in Caller(S).handles :
       \E count \in ArgsFor(fd, Caller(S).counts), v \in ArgsFor(fd, Caller(S).vals) :
          vtpc_write(fd, Pattern(v, count), Caller(S).faults)

DoLseek(S) ==
    /\ More(S) /\ "lseek" \in Caller(S).ops
    /\ UNCHANGED <<threads, walk>>
    /\ \E fd \in Caller(S).handles : \E sk \in ArgsFor(fd, Caller(S).seeks) :
          vtpc_lseek(fd, sk[1], sk[2])

DoFsync(S) ==
    /\ More(S) /\ "fsync" \in Caller(S).ops
    /\ UNCHANGED <<threads, walk>>
    /\ \E fd \in Caller(S).handles : vtpc_fsync(fd, Caller(S).faults)

Calls(S) ==
    \/ DoOpen(S) \/ DoClose(S) \/ DoRead(S) \/ DoWrite(S) \/ DoLseek(S) \/ DoFsync(S)

\* Any caller: every call, on good and bad handles, with failing backing calls.
AnyCaller ==
    [ops |-> Ops, paths |-> Paths, trunc |-> {FALSE}, handles |-> HandleArgs,
     counts |-> {1, MaxBlocks * BLOCK_SIZE},
     vals |-> 0 .. NumVals - 1,
     seeks |-> {<<1, SEEK_SET>>, <<-1, SEEK_CUR>>, <<1, SEEK_END>>, <<0, "SEEK_DATA">>},
     faults |-> MaxFaults]

Next == Calls([k \in 1 .. MaxOps |-> AnyCaller])

Spec == Init /\ [][Next]_vars

last == IF hist = <<>> THEN NoCall ELSE hist[Len(hist)]

----------------------------------------------------------------------------
(* Reading the history.                                                    *)

\* The vtpc_open that handle h, as call k found it, came from: the last
\* successful vtpc_open returning h that no vtpc_close of h has followed;
\* 0 if h was not open.
Opener(k, h) ==
    LET S == {j \in 1 .. k - 1 :
                /\ hist[j].op = "open" /\ hist[j].ret = h /\ h \in Handles
                /\ \A i \in j + 1 .. k - 1 :
                      ~(hist[i].op = "close" /\ hist[i].h = h /\ hist[i].err # "EBADF")}
    IN  IF S = {} THEN 0 ELSE CHOOSE j \in S : TRUE

IsOpen(k, h) == Opener(k, h) # 0
FileOf(k, h) == hist[Opener(k, h)].path

\* Another handle was open on the file of handle h when call k was made.
Aliased(k, h) ==
    \E g \in Handles \ {h} : IsOpen(k, g) /\ FileOf(k, g) = FileOf(k, h)

\* A backing-store call that did what it was asked to.
CallOk(c) == IF IsBlockWrite(c) THEN c.r = BLOCK_SIZE ELSE c.r >= 0

\* No backing-store call has failed up to and including call k.
NoFailure(k) ==
    \A j \in 1 .. k : \A i \in 1 .. Len(hist[j].calls) : CallOk(hist[j].calls[i])

\* Where call k found the cursor of its handle.
PosAt(k) == hist[k].before[hist[k].h].current_offset
SizeAt(k) == hist[k].before[hist[k].h].file_size

----------------------------------------------------------------------------
(* Scripted callers.                                                       *)

Quiet ==
    [ops |-> {}, paths |-> {}, trunc |-> {FALSE}, handles |-> {}, counts |-> {},
     vals |-> {}, seeks |-> {}, faults |-> 0]

Lengths == {1, BLOCK_SIZE, BLOCK_SIZE + 1, MaxBlocks * BLOCK_SIZE}
Rewind == {<<0, SEEK_SET>>}

\* A round trip on handle 0 after four calls that open, write and rewind on
\* either handle.
RoundTripScript ==
    LET prelude == [Quiet EXCEPT !.ops = {"open", "write", "lseek"}, !.paths = Paths,
                                 !.handles = Handles, !.counts = {BLOCK_SIZE},
                                 !.vals = {0}, !.seeks = Rewind]
    IN  << [Quiet EXCEPT !.ops = {"open"}, !.paths = {"A"}],
           prelude, prelude, prelude, prelude,
           [Quiet EXCEPT !.ops = {"write"}, !.handles = {0}, !.counts = Lengths,
                         !.vals = {NumVals - 1}],
           [Quiet EXCEPT !.ops = {"lseek"}, !.handles = {0}, !.seeks = Rewind],
           [Quiet EXCEPT !.ops = {"read"}, !.handles = {0}, !.counts = Lengths] >>

NextRoundTrip ==
    \/ DoOpen(RoundTripScript) \/ DoWrite(RoundTripScript)
    \/ DoLseek(RoundTripScript) \/ DoRead(RoundTripScript)

SpecRoundTrip == Init /\ [][NextRoundTrip]_vars

\* Calls k-2, k-1, k are: a write of L > 0 bytes at offset 0 on an open handle,
\* a seek of that handle to 0, a read of L bytes from it.
RoundTripAt(k) ==
    /\ k >= 3
    /\ hist[k - 2].op = "write" /\ IsOpen(k - 2, hist[k - 2].h)
    /\ hist[k - 2].count > 0 /\ PosAt(k - 2) = 0
    /\ hist[k - 1].op = "lseek" /\ hist[k - 1].h = hist[k - 2].h
    /\ hist[k - 1].off = 0 /\ hist[k - 1].whence = SEEK_SET
    /\ hist[k].op = "read" /\ hist[k].h = hist[k - 2].h
    /\ hist[k].count = hist[k - 2].count

ReadBack(k) == hist[k].ret = hist[k - 2].count /\ hist[k].rbuf = hist[k - 2].wbuf

\* C1 as stated: after writing L bytes at offset 0 on an open handle, seeking
\* back to 0 and reading L bytes, the read returns L and the bytes written,
\* whatever was evicted in between, provided no backing-store call fails.
C1_RoundTripAsStated ==
    \A k \in 1 .. Len(hist) : RoundTripAt(k) /\ NoFailure(k) => ReadBack(k)

\* C1 amended: the same, provided also that no other open handle refers to the
\* same backing file.
C1_RoundTrip ==
    \A k \in 1 .. Len(hist) :
        RoundTripAt(k) /\ NoFailure(k) /\ ~Aliased(k, hist[k].h) => ReadBack(k)

\* A round trip on a file no other handle has open whose read re-fetched a
\* block from the backing store and returned the bytes written.
C1_Witness ==
    /\ hist # <<>> /\ RoundTripAt(Len(hist)) /\ NoFailure(Len(hist))
    /\ ~Aliased(Len(hist), last.h)
    /\ last.calls # <<>> /\ last.ret = MaxBlocks * BLOCK_SIZE /\ last.rbuf = hist[Len(hist) - 2].wbuf

----------------------------------------------------------------------------
\* A full-block write on handle 0, a call that may evict it, a short write
\* in the middle of a block, and a read of a whole block.
PartialScript ==
    << [Quiet EXCEPT !.ops = {"open"}, !.paths = {"A"}],
       [Quiet EXCEPT !.ops = {"open"}, !.paths = Paths],
       [Quiet EXCEPT !.ops = {"write"}, !.handles = {0}, !.vals = {0},
                     !.counts = {BLOCK_SIZE, MaxBlocks * BLOCK_SIZE}],
       [Quiet EXCEPT !.ops = {"write", "read", "lseek", "fsync"}, !.handles = Handles,
                     !.counts = {BLOCK_SIZE, 2 * BLOCK_SIZE}, !.vals = {0},
                     !.seeks = Rewind, !.faults = MaxFaults],
       [Quiet EXCEPT !.ops = {"lseek"}, !.handles = {0},
                     !.seeks = {<<1, SEEK_SET>>, <<BLOCK_SIZE + 1, SEEK_SET>>}],
       [Quiet EXCEPT !.ops = {"write"}, !.handles = {0}, !.vals = {NumVals - 1},
                     !.counts = {1, BLOCK_SIZE - 1}, !.faults = MaxFaults],
       [Quiet EXCEPT !.ops = {"lseek"}, !.handles = {0},
                     !.seeks = {<<0, SEEK_SET>>, <<BLOCK_SIZE, SEEK_SET>>}],
       [Quiet EXCEPT !.ops = {"read"}, !.handles = {0}, !.counts = {BLOCK_SIZE},
                     !.faults = MaxFaults] >>

NextPartial ==
    \/ DoOpen(PartialScript) \/ DoWrite(PartialScript) \/ DoRead(PartialScript)
    \/ DoLseek(PartialScript) \/ DoFsync(PartialScript)

SpecPartial == Init /\ [][NextPartial]_vars

BlockIndices == 0 .. MaxBlocks

\* Call x is a write through handle h that touches block b.
WritesInto(x, h, b) ==
    /\ hist[x].op = "write" /\ hist[x].h = h
    /\ PosAt(x) < (b + 1) * BLOCK_SIZE /\ PosAt(x) + hist[x].count > b * BLOCK_SIZE

\* Call i writes the whole of block b through an open handle; call j, on the
\* same handle, writes a run that starts inside block b and ends in it; call
\* k reads block b through it; the handle wrote nothing else into the block
\* and stayed open.
PartialWriteAt(i, j, k, b) ==
    /\ i < j /\ j < k
    /\ hist[i].op = "write" /\ IsOpen(i, hist[i].h)
    /\ PosAt(i) <= b * BLOCK_SIZE /\ PosAt(i) + hist[i].count >= (b + 1) * BLOCK_SIZE
    /\ WritesInto(j, hist[i].h, b) /\ PosAt(j) > b * BLOCK_SIZE
    /\ PosAt(j) + hist[j].count <= (b + 1) * BLOCK_SIZE
    /\ hist[k].op = "read" /\ hist[k].h = hist[i].h
    /\ PosAt(k) = b * BLOCK_SIZE /\ hist[k].count = BLOCK_SIZE
    /\ Opener(k, hist[i].h) = Opener(i, hist[i].h)
    /\ \A x \in (i + 1 .. k - 1) \ {j} : ~WritesInto(x, hist[i].h, b)

\* The block that read must return: the run of call j over the bytes of call i.
Preserved(i, j, b) ==
    [x \in 1 .. BLOCK_SIZE |->
        IF b * BLOCK_SIZE + x > PosAt(j) /\ b * BLOCK_SIZE + x <= PosAt(j) + hist[j].count
        THEN hist[j].wbuf[b * BLOCK_SIZE + x - PosAt(j)]
        ELSE hist[i].wbuf[b * BLOCK_SIZE + x - PosAt(i)]]

OwnCallsOk(x) == \A c \in 1 .. Len(hist[x].calls) : CallOk(hist[x].calls[c])

PartialTriples ==
    {t \in (1 .. Len(hist)) \X (1 .. Len(hist)) \X (1 .. Len(hist)) \X BlockIndices :
        PartialWriteAt(t[1], t[2], t[3], t[4])}

----------------------------------------------------------------------------
\* Two opens, then any calls on the table's handles, with failing backing
\* calls: the table fills, handles close and reopen, blocks are evicted.
ChurnScript ==
    LET body == [ops |-> Ops, paths |-> Paths, trunc |-> {FALSE}, handles |-> Handles,
                 counts |-> {1, 2 * BLOCK_SIZE}, vals |-> {0},
                 seeks |-> {<<0, SEEK_SET>>, <<1, SEEK_END>>}, faults |-> MaxFaults]
    IN  << [Quiet EXCEPT !.ops = {"open"}, !.paths = {"A"}],
           [Quiet EXCEPT !.ops = {"open"}, !.paths = Paths],
           body, body, body >>

NextChurn == Calls(ChurnScript)

SpecChurn == Init /\ [][NextChurn]_vars

----------------------------------------------------------------------------
(* Claims about every run.                                                 *)

N == Len(hist)

\* C3: after any sequence of calls, failing ones included, at most one pool
\* slot is valid and tagged with a given (raw descriptor, block index) pair.
C3_PoolUnique ==
    \A i, j \in Slots :
        i # j /\ cache[i].valid /\ cache[j].valid
        => ~(cache[i].fd = cache[j].fd /\ cache[i].block_index = cache[j].block_index)

\* Every slot holds a block of the same descriptor and a dirty block has just
\* been evicted to make room.
C3_Witness ==
    /\ hist # <<>>
    /\ \A i \in Slots : cache[i].valid /\ cache[i].fd = cache[0].fd
    /\ \E c \in 1 .. Len(last.calls) : last.calls[c].name = "evict_write"

\* Handle h is open now.
OpenNow(h) == IsOpen(N + 1, h)

\* C4: the tracked size of an open handle is at least the end of every run
\* written through it since it was opened; a write that ends past the tracked
\* size raises it to the new cursor; no other call changes it while the
\* handle is open.
C4_TrackedSize ==
    /\ \A h \in Handles : \A x \in 1 .. N :
          OpenNow(h) /\ x > Opener(N + 1, h) /\ hist[x].op = "write" /\ hist[x].h = h
          => open_files[h].file_size >= PosAt(x) + hist[x].count
    /\ N > 0 =>
       \A h \in Handles :
          IsOpen(N, h) /\ OpenNow(h) =>
             IF last.op = "write" /\ last.h = h /\ PosAt(N) + last.ret > SizeAt(N)
             THEN /\ open_files[h].file_size = PosAt(N) + last.ret
                  /\ open_files[h].file_size = open_files[h].current_offset
             ELSE open_files[h].file_size = last.before[h].file_size

\* A write that started beyond the tracked size and raised it to its end.
C4_Witness ==
    /\ N > 0 /\ last.op = "write" /\ IsOpen(N, last.h)
    /\ PosAt(N) > SizeAt(N) /\ SizeAt(N) > 0
    /\ open_files[last.h].file_size = PosAt(N) + last.count

HandleCalls == {"read", "write", "lseek", "fsync", "close"}

\* C5 as stated: a read, write, lseek, fsync or close on a handle that is not
\* open (out of range, never returned by vtpc_open, or used before the first
\* vtpc_open) returns -1 with EBADF and changes neither pool nor table.
C5_BadHandleAsStated ==
    [][hist' # hist /\ hist'[N + 1].op \in HandleCalls /\ ~OpenNow(hist'[N + 1].h)
       => /\ hist'[N + 1].ret = -1 /\ hist'[N + 1].err = "EBADF"
          /\ UNCHANGED <<cache, open_files>>]_vars

\* A vtpc_close of handle h has been called and vtpc_open has not returned h since.
ClosedSince(h) ==
    \E j \in 1 .. N :
        /\ hist[j].op = "close" /\ hist[j].h = h
        /\ \A i \in j + 1 .. N : ~(hist[i].op = "open" /\ hist[i].ret = h)

\* C6: once vtpc_close has been called on a handle, every later call on it,
\* until vtpc_open returns it again, fails with EBADF and leaves the table and
\* the pool, so every other handle's cursor, size and blocks, unchanged.
C6_BadHandleAfterClose ==
    [][hist' # hist /\ hist'[N + 1].op \in HandleCalls /\ ClosedSince(hist'[N + 1].h)
       => /\ hist'[N + 1].ret = -1 /\ hist'[N + 1].err = "EBADF"
          /\ UNCHANGED <<cache, open_files>>]_vars

\* A call on a closed handle has failed with EBADF while another handle is
\* open with a dirty block in the pool.
C6_Witness ==
    /\ N > 0 /\ last.op \in HandleCalls /\ last.err = "EBADF"
    /\ \E j \in 1 .. N - 1 : hist[j].op = "close" /\ hist[j].h = last.h /\ hist[j].ret = 0
    /\ \E g \in Handles \ {last.h} :
          /\ OpenNow(g)
          /\ \E i \in Slots : cache[i].valid /\ cache[i].dirty
                              /\ cache[i].fd = open_files[g].os_fd

\* Handles that were free when call k was made.
FreeAt(k) == {h \in Handles : ~IsOpen(k, h)}

\* C7: while the table has a free entry, a vtpc_open whose backing open
\* succeeds returns a free handle; with the table full it returns -1 with
\* EMFILE and does not open the backing store; after a close it succeeds again.
C7_Exhaustion ==
    \A k \in 1 .. N :
        hist[k].op = "open" =>
            IF FreeAt(k) = {}
            THEN hist[k].ret = -1 /\ hist[k].err = "EMFILE" /\ hist[k].calls = <<>>
            ELSE OwnCallsOk(k) => hist[k].ret \in FreeAt(k)

\* The table filled up, an open failed with EMFILE, a handle was closed, and
\* the next open returned that handle.
C7_Witness ==
    /\ N >= 3
    /\ hist[N - 2].op = "open" /\ hist[N - 2].err = "EMFILE"
    /\ hist[N - 1].op = "close" /\ hist[N - 1].ret = 0
    /\ last.op = "open" /\ last.ret = hist[N - 1].h

\* Call k is a vtpc_close of an open handle one of whose write-backs failed.
FailedWriteBack(k) ==
    /\ hist[k].op = "close" /\ IsOpen(k, hist[k].h)
    /\ \E c \in 1 .. Len(hist[k].calls) : hist[k].calls[c] = [name |-> "pwrite", r |-> -1]

\* C9 as stated: a vtpc_close during which the write-back of a dirty block
\* fails returns -1, writes no further block back, and releases the handle.
C9_CloseReportsAsStated ==
    \A k \in 1 .. N :
        FailedWriteBack(k)
        => /\ hist[k].ret = -1
           /\ \A c \in 1 .. Len(hist[k].calls) - 1 :
                 hist[k].calls[c].name = "pwrite" /\ hist[k].calls[c].r = -1
                 => hist[k].calls[c + 1].name # "pwrite"
           /\ ~IsOpen(k + 1, hist[k].h)

\* C10: after vtpc_close on an open handle returns, whatever it returns, the
\* handle is free for the next vtpc_open and no valid pool slot is owned by
\* the handle's raw descriptor.
C10_CloseReleases ==
    N > 0 /\ last.op = "close" /\ IsOpen(N, last.h)
    => /\ last.h \in FreeHandles(open_files)
       /\ \A i \in Slots : ~(cache[i].valid /\ cache[i].fd = last.before[last.h].os_fd)

\* A close that reported failure after a write-back: the handle is free and
\* its blocks are gone.
C10_Witness ==
    /\ N > 0 /\ last.op = "close" /\ IsOpen(N, last.h) /\ last.ret = -1
    /\ \E c \in 1 .. Len(last.calls) : last.calls[c].name = "pwrite"
    /\ last.h \in FreeHandles(open_files)

----------------------------------------------------------------------------
\* Writes through handle 0, perhaps next to a second handle on the same
\* file, a close of handle 0 with no fsync before it, a reopen of the path, and
\* a read of the file.
ReopenScript ==
    << [Quiet EXCEPT !.ops = {"open"}, !.paths = {"A"}],
       [Quiet EXCEPT !.ops = {"open", "lseek"}, !.paths = Paths, !.handles = {0},
                     !.seeks = {<<0, SEEK_SET>>, <<1, SEEK_SET>>}],
       [Quiet EXCEPT !.ops = {"write"}, !.handles = Handles, !.vals = {0},
                     !.counts = {BLOCK_SIZE, MaxBlocks * BLOCK_SIZE}],
       [Quiet EXCEPT !.ops = {"write"}, !.handles = {0}, !.vals = {NumVals - 1},
                     !.counts = {1, BLOCK_SIZE}, !.faults = MaxFaults],
       [Quiet EXCEPT !.ops = {"write", "lseek"}, !.handles = {0},
                     !.vals = {NumVals - 1}, !.counts = {1}, !.seeks = Rewind],
       [Quiet EXCEPT !.ops = {"write", "lseek"}, !.handles = Handles, !.vals = {0},
                     !.counts = {BLOCK_SIZE}, !.seeks = Rewind],
       [Quiet EXCEPT !.ops = {"close"}, !.handles = {0}, !.faults = MaxFaults],
       [Quiet EXCEPT !.ops = {"open"}, !.paths = {"A"}],
       [Quiet EXCEPT !.ops = {"read"}, !.handles = {0},
                     !.counts = {MaxBlocks * BLOCK_SIZE + 1}] >>

NextReopen ==
    \/ DoOpen(ReopenScript) \/ DoWrite(ReopenScript) \/ DoLseek(ReopenScript)
    \/ DoClose(ReopenScript) \/ DoRead(ReopenScript)

SpecReopen == Init /\ [][NextReopen]_vars

\* Call x is a write through handle h over some byte of the run of call i.
Overwrites(x, h, i) ==
    /\ hist[x].op = "write" /\ hist[x].h = h
    /\ PosAt(x) < PosAt(i) + hist[i].count /\ PosAt(x) + hist[x].count > PosAt(i)

\* Call i writes through an open handle; call c closes the handle, which was
\* never fsynced and wrote nothing over the run of call i afterwards; call o
\* reopens the same path; call o+1 reads the file from its start through the
\* handle that call o returned.
ReopenAt(i, c, o) ==
    /\ i < c /\ c < o /\ o < N
    /\ hist[i].op = "write" /\ IsOpen(i, hist[i].h) /\ hist[i].count > 0
    /\ hist[c].op = "close" /\ hist[c].h = hist[i].h
    /\ Opener(c, hist[i].h) = Opener(i, hist[i].h)
    /\ \A x \in Opener(i, hist[i].h) .. c :
          ~(hist[x].op = "fsync" /\ hist[x].h = hist[i].h)
    /\ \A x \in i + 1 .. c : ~Overwrites(x, hist[i].h, i)
    /\ hist[o].op = "open" /\ hist[o].ret >= 0 /\ ~hist[o].trunc
    /\ hist[o].path = FileOf(i, hist[i].h)
    /\ hist[o + 1].op = "read" /\ hist[o + 1].h = hist[o].ret
    /\ hist[o + 1].count >= PosAt(i) + hist[i].count

Reopens == {t \in (1 .. N) \X (1 .. N) \X (1 .. N) : ReopenAt(t[1], t[2], t[3])}

\* The reopened handle's tracked size covers the run of call i, and the read
\* returned the run where it was written.
DataPresent(i, o) ==
    /\ hist[o + 1].before[hist[o].ret].file_size >= PosAt(i) + hist[i].count
    /\ hist[o + 1].ret >= PosAt(i) + hist[i].count
    /\ SubSeq(hist[o + 1].rbuf, PosAt(i) + 1, PosAt(i) + hist[i].count) = hist[i].wbuf

OnlyHandleOn(x, path, h) ==
    \A g \in Handles \ {h} : ~(IsOpen(x, g) /\ FileOf(x, g) = path)

----------------------------------------------------------------------------
(* Eviction.                                                               *)

\* C11 as stated: whenever a dirty valid block is evicted from a full pool,
\* its full contents are in the backing store of its owner at offset
\* block-index x block-size before the slot is tagged with the new block.
C11_EvictionDurableAsStated ==
    \A k \in 1 .. N : \A e \in 1 .. Len(hist[k].evicted) :
        hist[k].evicted[e].dirty
        => hist[k].evicted[e].stored = hist[k].evicted[e].data

\* Call k evicted a dirty block whose write-back did not write the block.
FailedEviction(k) ==
    \E c \in 1 .. Len(hist[k].calls) :
        hist[k].calls[c].name = "evict_write" /\ hist[k].calls[c].r # BLOCK_SIZE

\* C12 as stated: a vtpc_read or vtpc_write that evicts a dirty block whose
\* write-back fails returns -1.
C12_EvictionFailureAsStated ==
    \A k \in 1 .. N :
        hist[k].op \in {"read", "write"} /\ FailedEviction(k) => hist[k].ret = -1

----------------------------------------------------------------------------
(* Reads, writes and seeks.                                                *)

FailedRead(call) ==
    \E c \in 1 .. Len(call.calls) : call.calls[c] = [name |-> "pread", r |-> -1]

\* C13: with cursor c and tracked size s, a vtpc_read on an open handle
\* returns min(count, s - c) bytes when c < s and no backing read fails, and
\* returns 0 without error when c >= s, changing neither table nor pool.
C13_ReadClamp ==
    [][hist' # hist /\ hist'[N + 1].op = "read" /\ OpenNow(hist'[N + 1].h)
       => LET call == hist'[N + 1]
              c == open_files[call.h].current_offset
              s == open_files[call.h].file_size
          IN  IF c >= s
              THEN /\ call.ret = 0 /\ call.err = "" /\ call.rbuf = <<>>
                   /\ UNCHANGED <<cache, open_files>>
              ELSE ~FailedRead(call)
                   => /\ call.ret = Min(call.count, s - c)
                      /\ Len(call.rbuf) = call.ret]_vars

\* A read that asked for more than was left before the tracked size and got
\* what was left.
C13_Witness ==
    /\ N > 0 /\ last.op = "read" /\ IsOpen(N, last.h)
    /\ PosAt(N) < SizeAt(N) /\ last.count > SizeAt(N) - PosAt(N)
    /\ last.ret = SizeAt(N) - PosAt(N)

\* Call k is a successful vtpc_read or vtpc_write on an open handle.
Transfer(k) ==
    hist[k].op \in {"read", "write"} /\ IsOpen(k, hist[k].h) /\ hist[k].ret >= 0

\* C14: a successful vtpc_read or vtpc_write advances the cursor of its handle
\* by exactly the number of bytes it returns, so consecutive reads or writes
\* on one handle cover adjacent byte ranges.
C14_CursorAdvance ==
    /\ N > 0 /\ Transfer(N)
       => open_files[last.h].current_offset = PosAt(N) + last.ret
    /\ \A k \in 1 .. N - 1 :
          Transfer(k) /\ Transfer(k + 1) /\ hist[k + 1].h = hist[k].h
          => PosAt(k + 1) = PosAt(k) + hist[k].ret

\* Two writes in a row on one handle: the second started where the first
\* ended and moved the cursor by what it returned.
C14_Witness ==
    /\ N >= 2 /\ Transfer(N - 1) /\ Transfer(N)
    /\ hist[N - 1].op = "write" /\ last.op = "write" /\ last.h = hist[N - 1].h
    /\ hist[N - 1].ret > 0 /\ last.ret > 0
    /\ PosAt(N) = PosAt(N - 1) + hist[N - 1].ret
    /\ open_files[last.h].current_offset = PosAt(N) + last.ret

\* C15: vtpc_lseek on an open handle sets the cursor to offset (SEEK_SET),
\* cursor + offset (SEEK_CUR) or tracked size + offset (SEEK_END) and returns
\* it; a negative result or another whence gives -1 with EINVAL and leaves the
\* cursor alone; nothing but that handle's cursor changes.
C15_Lseek ==
    [][hist' # hist /\ hist'[N + 1].op = "lseek" /\ OpenNow(hist'[N + 1].h)
       => LET call == hist'[N + 1]
              f == open_files[call.h]
              target == IF call.whence = SEEK_SET THEN call.off
                        ELSE IF call.whence = SEEK_CUR THEN f.current_offset + call.off
                        ELSE IF call.whence = SEEK_END THEN f.file_size + call.off
                        ELSE -1
          IN  /\ IF target < 0
                 THEN call.ret = -1 /\ call.err = "EINVAL" /\ UNCHANGED open_files
                 ELSE /\ call.ret = target
                      /\ open_files' = [open_files EXCEPT ![call.h].current_offset = target]
              /\ UNCHANGED <<cache, disk, os_fds>>]_vars

\* A seek from the end on a handle whose tracked size is not the length of
\* its backing file: the cursor went to tracked size + offset.
C15_Witness ==
    /\ N > 0 /\ last.op = "lseek" /\ IsOpen(N, last.h) /\ last.whence = SEEK_END
    /\ SizeAt(N) # Len(disk[FileOf(N, last.h)])
    /\ last.ret = SizeAt(N) + last.off
    /\ open_files[last.h].current_offset = last.ret

----------------------------------------------------------------------------
(* vtpc_fsync.                                                             *)

\* The bytes read from the backing store, as a block: zeros past its end.
AsBlock(bytes) == [x \in 1 .. BLOCK_SIZE |-> IF x <= Len(bytes) THEN bytes[x] ELSE 0]

\* Slot i holds a block of raw descriptor os_fd.
Owns(os_fd, i) == cache[i].valid /\ cache[i].fd = os_fd

\* C16 as stated: after vtpc_fsync on an open handle returns 0, every block
\* its raw descriptor had in the pool is still valid and is not dirty, and the
\* backing store holds its contents at offset block-index x block-size.
C16_FsyncCleanAsStated ==
    [][hist' # hist /\ hist'[N + 1].op = "fsync" /\ OpenNow(hist'[N + 1].h)
       /\ hist'[N + 1].ret = 0
       => \A i \in Slots :
             Owns(open_files[hist'[N + 1].h].os_fd, i)
             => /\ cache'[i].valid /\ ~cache'[i].dirty
                /\ cache'[i].data = cache[i].data
                /\ AsBlock(Stored(disk', cache[i].fd, cache[i].block_index * BLOCK_SIZE))
                     = cache[i].data]_vars

\* The write-backs among the backing-store calls of a vtpc_fsync.
WriteBacks(call) == {c \in 1 .. Len(call.calls) : call.calls[c].name = "pwrite"}

\* C17 as stated: when the write-back of a block fails during vtpc_fsync on
\* an open handle, the flush stops at that block and vtpc_fsync returns -1
\* with no barrier and no resize; the failing block and every dirty block
\* after it stay valid and dirty.
C17_FsyncFailureAsStated ==
    [][hist' # hist /\ hist'[N + 1].op = "fsync" /\ OpenNow(hist'[N + 1].h)
       /\ (\E c \in WriteBacks(hist'[N + 1]) : ~CallOk(hist'[N + 1].calls[c]))
       => LET call == hist'[N + 1]
              os_fd == open_files[call.h].os_fd
              failed == Minimum({c \in WriteBacks(call) : ~CallOk(call.calls[c])})
              \* the dirty blocks of the descriptor, in the order of the flush
              before == {i \in Slots : Owns(os_fd, i) /\ cache[i].dirty}
              rank(i) == Cardinality({x \in before : x <= i})
          IN  /\ call.ret = -1
              /\ Len(call.calls) = failed
              /\ \A i \in before :
                    /\ cache'[i].valid
                    /\ cache'[i].dirty = (rank(i) >= failed)]_vars

\* C18 as stated: whenever vtpc_fsync on an open handle returns 0, the length
\* of the backing store equals the handle's tracked size.
C18_FsyncResizeAsStated ==
    N > 0 /\ last.op = "fsync" /\ IsOpen(N, last.h) /\ last.ret = 0
    => Len(disk[FileOf(N, last.h)]) = open_files[last.h].file_size

-----------------------------------------------------------------------------
(* Transfers over several blocks with failing backing-store calls.         *)

\* Handle 0 writes several blocks, more than the pool holds included, seeks
\* and reads several blocks; any backing-store call of a transfer may fail.
ChunkScript ==
    LET spans == {BLOCK_SIZE + 1, 2 * BLOCK_SIZE, MaxBlocks * BLOCK_SIZE}
        transfer == [Quiet EXCEPT !.handles = {0}, !.counts = spans,
                                  !.vals = 0 .. NumVals - 1, !.faults = MaxFaults]
    IN  << [Quiet EXCEPT !.ops = {"open"}, !.paths = {"A"}],
           [transfer EXCEPT !.ops = {"write"}],
           [Quiet EXCEPT !.ops = {"lseek"}, !.handles = {0},
                         !.seeks = {<<0, SEEK_SET>>, <<1, SEEK_SET>>}],
           [transfer EXCEPT !.ops = {"read", "write"}] >>

NextChunk ==
    \/ DoOpen(ChunkScript) \/ DoWrite(ChunkScript)
    \/ DoLseek(ChunkScript) \/ DoRead(ChunkScript)

SpecChunk == Init /\ [][NextChunk]_vars

\* The pass of the chunk loop that issued backing-store call c of a transfer.
ChunkOf(call, c) ==
    CHOOSE j \in 1 .. Len(call.chunks) :
        /\ call.chunks[j].calls < c
        /\ \A x \in j + 1 .. Len(call.chunks) : call.chunks[x].calls >= c

\* The passes of a transfer in which a backing-store call failed.
FailedChunks(call) ==
    {ChunkOf(call, c) : c \in {x \in 1 .. Len(call.calls) : ~CallOk(call.calls[x])}}

\* C19 as stated: when the first backing-store failure of a read or write on
\* an open handle happens in a chunk after the first, the call stops at that
\* chunk, returns the number of bytes the earlier chunks transferred, and the
\* cursor has advanced by that number.
C19_PartialTransferAsStated ==
    N > 0 /\ last.op \in {"read", "write"} /\ IsOpen(N, last.h)
    /\ FailedChunks(last) # {} /\ Minimum(FailedChunks(last)) > 1
    => LET j == Minimum(FailedChunks(last)) IN
       /\ Len(last.chunks) = j
       /\ last.ret = last.chunks[j].done
       /\ open_files[last.h].current_offset = PosAt(N) + last.ret

-----------------------------------------------------------------------------
(* Write, fsync, close, reopen, read.                                      *)

\* The lengths of the scenario: less than a block, a block, more than the
\* pool holds, a multiple of the block size or not.
PersistLengths ==
    {1, BLOCK_SIZE, BLOCK_SIZE + 1, MaxBlocks * BLOCK_SIZE, MaxBlocks * BLOCK_SIZE + 1}

\* Open A, write, fsync, close, reopen A, read; any backing-store call of
\* the write, the fsync, the close and the read may fail.
PersistScript ==
    LET step == [Quiet EXCEPT !.handles = {0}, !.faults = MaxFaults] IN
    << [Quiet EXCEPT !.ops = {"open"}, !.paths = {"A"}],
       [step EXCEPT !.ops = {"write"}, !.counts = PersistLengths,
                    !.vals = 0 .. NumVals - 1],
       [step EXCEPT !.ops = {"fsync"}],
       [step EXCEPT !.ops = {"close"}],
       [Quiet EXCEPT !.ops = {"open"}, !.paths = {"A"}],
       [step EXCEPT !.ops = {"read"}, !.counts = PersistLengths] >>

NextPersist ==
    \/ DoOpen(PersistScript) \/ DoWrite(PersistScript) \/ DoFsync(PersistScript)
    \/ DoClose(PersistScript) \/ DoRead(PersistScript)

SpecPersist == Init /\ [][NextPersist]_vars

\* The scenario has run and every call of it reported success: n bytes
\* written, fsync and close returned 0, the same path reopened, n bytes asked
\* for and no error returned by the read.
Persisted(n) ==
    /\ N = 6
    /\ hist[1].op = "open" /\ hist[1].ret = 0
    /\ hist[2].op = "write" /\ hist[2].h = 0 /\ hist[2].count = n /\ hist[2].ret = n
    /\ hist[3].op = "fsync" /\ hist[3].h = 0 /\ hist[3].ret = 0
    /\ hist[4].op = "close" /\ hist[4].h = 0 /\ hist[4].ret = 0
    /\ hist[5].op = "open" /\ hist[5].path = hist[1].path /\ hist[5].ret = 0
    /\ hist[6].op = "read" /\ hist[6].h = 0 /\ hist[6].count = n /\ hist[6].ret # -1

\* C20 as stated: with a pool smaller than the data, after open, write of n
\* bytes, fsync, close and reopen of the same path, the new handle's tracked
\* size is exactly n and reading n bytes returns the written bytes, for every
\* n, multiple of the block size or not.
C20_PersistAsStated ==
    \A n \in PersistLengths :
        Persisted(n)
        => /\ SizeAt(6) = n
           /\ hist[6].ret = n
           /\ hist[6].rbuf = hist[2].wbuf


-----------------------------------------------------------------------------
(* Claims about vtpc_open, eviction and the pool's bookkeeping.            *)

\* C21: a vtpc_open that succeeds returns a handle of the table that was not
\* open when it was called, with cursor 0 and a tracked size equal to the
\* length of the backing store; every other entry of the table is left as it
\* was, and once the pool is initialised an open leaves the pool as it was.
C21_Open ==
    [][hist' # hist /\ hist'[N + 1].op = "open" /\ hist'[N + 1].ret # -1
       => LET call == hist'[N + 1] IN
          /\ call.ret \in Handles
          /\ ~OpenNow(call.ret)
          /\ open_files'[call.ret].os_fd # -1
          /\ open_files'[call.ret].current_offset = 0
          /\ open_files'[call.ret].file_size = Len(disk'[call.path])
          /\ \A h \in Handles \ {call.ret} :
                /\ OpenNow(h) => open_files'[h] = open_files[h]
                /\ open_files'[h].os_fd # open_files'[call.ret].os_fd
          /\ cache_initialized => cache' = cache]_vars

\* A handle has been closed and opened again on a file that has data, while
\* the other handle was open with its cursor moved and a block in the pool.
C21_Witness ==
    /\ N >= 3 /\ last.op = "open" /\ last.ret \in Handles
    /\ IsOpen(N, last.ret) = FALSE
    /\ \E j \in 1 .. N - 1 : hist[j].op = "close" /\ hist[j].h = last.ret /\ hist[j].ret = 0
    /\ \E h \in Handles \ {last.ret} :
          /\ OpenNow(h) /\ open_files[h].current_offset > 0
          /\ \E i \in Slots : cache[i].valid /\ cache[i].fd = open_files[h].os_fd


\* Handle 0 reads, writes and seeks over more blocks than the pool holds,
\* past the end of the file included: slots are hit, filled, evicted clean
\* and dirty, with equal and with different counters; the file is opened
\* again in between.
PoolScript ==
    LET body == [Quiet EXCEPT !.ops = {"open", "read", "write", "lseek"},
                              !.paths = {"A"}, !.handles = {0},
                              !.counts = {1, BLOCK_SIZE + 1}, !.vals = {0},
                              !.seeks = {<<0, SEEK_SET>>, <<2 * BLOCK_SIZE, SEEK_SET>>},
                              !.faults = MaxFaults]
    IN  << [Quiet EXCEPT !.ops = {"open"}, !.paths = {"A"}],
           body, body, body, body, body >>

NextPool == \/ DoOpen(PoolScript) \/ DoRead(PoolScript)
            \/ DoWrite(PoolScript) \/ DoLseek(PoolScript)

SpecPool == Init /\ [][NextPool]_vars

\* The latest call is a read or write on an open handle that got as far as
\* its chunk loop.
Transferring == N > 0 /\ last.op \in {"read", "write"} /\ IsOpen(N, last.h)

\* The passes of the chunk loop of the latest call; what pass j found (pool,
\* backing store, number of backing-store calls issued) and what it left.
Passes == 1 .. Len(last.chunks)
PassFrom(j) == last.chunks[j]
PassTo(j) ==
    IF j < Len(last.chunks) THEN last.chunks[j + 1]
    ELSE [calls |-> Len(last.calls), done |-> last.ret, cache |-> cache, disk |-> disk]
PassCalls(j) == SubSeq(last.calls, PassFrom(j).calls + 1, PassTo(j).calls)
PassFd == last.before[last.h].os_fd
PassOffset(j) == PosAt(N) + PassFrom(j).done
PassBlock(j) == PassOffset(j) \div BLOCK_SIZE

\* The slots of pool c that hold block b of raw descriptor fd.
Holding(c, fd, b) == {i \in Slots : c[i].valid /\ c[i].fd = fd /\ c[i].block_index = b}

Hit(j) == Holding(PassFrom(j).cache, PassFd, PassBlock(j)) # {}
Miss(j) == ~Hit(j)

\* Pass j issued backing-store call `name`.
Issued(j, name) == \E c \in 1 .. Len(PassCalls(j)) : PassCalls(j)[c].name = name

\* The slot the selection rule names in pool c.
Selected(c) ==
    LET invalid == {i \in Slots : ~c[i].valid}
        most == {i \in Slots : \A x \in Slots : c[i].frequency >= c[x].frequency}
    IN  IF invalid # {} THEN Minimum(invalid) ELSE Minimum(most)

\* C22: on a miss the slot taken is the lowest invalid slot if there is one
\* (and nothing is written back), otherwise the lowest of the slots with the
\* highest counter; the slot taken is written back first if and only if it
\* was valid and dirty; no other slot is touched by the pass.
C22_Selection ==
    Transferring =>
        \A j \in Passes : Miss(j) =>
            LET c == PassFrom(j).cache
                s == Selected(c)
            IN  /\ \A i \in Slots \ {s} : PassTo(j).cache[i] = c[i]
                /\ Issued(j, "evict_write") <=> (c[s].valid /\ c[s].dirty)
                /\ last.ret # -1 => s \in Holding(PassTo(j).cache, PassFd, PassBlock(j))

\* A miss found the pool full with the highest counter in a slot that is not
\* the lowest, and that slot was dirty.
C22_Witness ==
    /\ Transferring
    /\ \E j \in Passes :
          /\ Miss(j)
          /\ \A i \in Slots : PassFrom(j).cache[i].valid
          /\ Selected(PassFrom(j).cache) # 0
          /\ PassFrom(j).cache[Selected(PassFrom(j).cache)].dirty
          /\ Issued(j, "evict_write")


\* Pass j evicts a dirty block: it misses on a full pool and the slot the
\* selection names is dirty.
EvictsDirty(j) ==
    /\ Miss(j)
    /\ PassFrom(j).cache[Selected(PassFrom(j).cache)].valid
    /\ PassFrom(j).cache[Selected(PassFrom(j).cache)].dirty

\* The passes of the latest call that evict no dirty block (hits, misses
\* served from an invalid slot, evictions of a clean slot) write nothing to
\* the backing store and leave it as it was.
QuietPasses ==
    Transferring =>
        \A j \in Passes : ~EvictsDirty(j) =>
            /\ PassTo(j).disk = PassFrom(j).disk
            /\ ~Issued(j, "evict_write")

\* C23: the backing store is changed neither by vtpc_lseek, nor by vtpc_open
\* without truncation, nor by a read or write chunk that hits a resident
\* block, is served from an invalid slot, or evicts a clean slot.
C23_WriteBackOnly ==
    [][hist' # hist
       => /\ hist'[N + 1].op = "lseek" => disk' = disk
          /\ hist'[N + 1].op = "open" /\ ~hist'[N + 1].trunc => disk' = disk
          /\ QuietPasses']_vars

\* A pass has evicted a clean block from a full pool while another slot held
\* a dirty block whose bytes the backing store still lacks.
C23_Witness ==
    /\ Transferring
    /\ \E k \in Passes :
          /\ Miss(k) /\ ~EvictsDirty(k)
          /\ \A i \in Slots : PassFrom(k).cache[i].valid
          /\ \E i \in Slots :
                /\ PassFrom(k).cache[i].dirty
                /\ cache[i] = PassFrom(k).cache[i]
                /\ AsBlock(Stored(disk, cache[i].fd,
                                  cache[i].block_index * BLOCK_SIZE)) # cache[i].data


\* What the pread of pass j returned: NoReturn when the pass issued none.
Fetched(j) ==
    LET reads == {c \in 1 .. Len(PassCalls(j)) : PassCalls(j)[c].name = "pread"}
    IN  IF reads = {} THEN NoReturn ELSE PassCalls(j)[CHOOSE c \in reads : TRUE].r

\* The positions of the block of pass j (1 .. BLOCK_SIZE) the pass transfers.
InBlock(j) == PassOffset(j) % BLOCK_SIZE
Run(j) ==
    LET from == InBlock(j) IN
    {x \in 1 .. BLOCK_SIZE : from < x /\ x <= from + (PassTo(j).done - PassFrom(j).done)}

\* Where position x of the block of pass j lies in the caller's buffer.
UserIndex(j, x) == PassFrom(j).done + x - InBlock(j)

\* C24: when the backing store returns fewer bytes than a block on a miss,
\* the pass does not fail and transfers its bytes, the slot holds the bytes returned
\* followed by zeros (under the bytes a write puts in it), and the bytes a read
\* returns from past the end of what the store returned are zero.
C24_ShortRead ==
    Transferring =>
        \A j \in Passes : Miss(j) /\ Fetched(j) \in 0 .. BLOCK_SIZE - 1 =>
            \* the store as the pread found it, after the write-back of the pass
            LET got == Stored(PassTo(j).disk, PassFd, PassBlock(j) * BLOCK_SIZE) IN
            /\ PassTo(j).done > PassFrom(j).done
            /\ Len(got) = Fetched(j)
            /\ \E s \in Holding(PassTo(j).cache, PassFd, PassBlock(j)) :
                  \A x \in 1 .. BLOCK_SIZE :
                     /\ last.op = "write" /\ x \in Run(j)
                        => PassTo(j).cache[s].data[x] = last.wbuf[UserIndex(j, x)]
                     /\ last.op = "read" \/ x \notin Run(j)
                        => PassTo(j).cache[s].data[x] = AsBlock(got)[x]
            /\ last.op = "read" =>
                  \A x \in Run(j) :
                     x > Fetched(j)
                     => last.rbuf[UserIndex(j, x)] = 0

\* A read inside the tracked size has missed on a block that straddles the
\* end of the backing store and returned bytes of the store followed by
\* zeros.
C24_Witness ==
    /\ Transferring /\ last.op = "read" /\ last.ret > 0
    /\ \E j \in Passes :
          /\ Miss(j) /\ Fetched(j) \in 1 .. BLOCK_SIZE - 1
          /\ \E x, y \in Run(j) : x <= Fetched(j) /\ y > Fetched(j)
                /\ last.rbuf[UserIndex(j, x)] # 0


\* Pass j ran to its end: it transferred its bytes.
Completed(j) == PassTo(j).done > PassFrom(j).done

\* C25: a chunk that hits a resident block raises the counter of that slot by
\* exactly 1, a chunk that misses leaves the slot it repopulates with a
\* counter of exactly 1 whatever the counter was, and in both cases the
\* counter of every other slot stays as it was.
C25_Counter ==
    Transferring =>
        \A j \in Passes : Completed(j) =>
            LET c == PassFrom(j).cache
                d == PassTo(j).cache
                s == IF Hit(j) THEN CHOOSE i \in Holding(c, PassFd, PassBlock(j)) : TRUE
                     ELSE Selected(c)
            IN  /\ s \in Holding(d, PassFd, PassBlock(j))
                /\ d[s].frequency = IF Hit(j) THEN c[s].frequency + 1 ELSE 1
                /\ \A i \in Slots \ {s} : d[i].frequency = c[i].frequency

\* One call has hit a block, raising its counter to 2 or more, and then
\* repopulated a slot whose counter was 2 or more.
C25_Witness ==
    /\ Transferring
    /\ \E j, k \in Passes :
          /\ Hit(j) /\ Completed(j)
          /\ Miss(k) /\ Completed(k)
          /\ PassFrom(k).cache[Selected(PassFrom(k).cache)].frequency >= 2
          /\ PassTo(k).cache[Selected(PassFrom(k).cache)].frequency = 1


\* What C26 says of the backing-store reads of the misses, and of the slot a
\* read miss fills: a read miss leaves its slot clean, a write miss whose
\* chunk covers the whole block reads nothing, a write miss that covers part
\* of the block reads the block.
MissReads ==
    Transferring =>
        \A j \in Passes : Miss(j) /\ Completed(j) =>
            /\ last.op = "read" =>
                  \A s \in Holding(PassTo(j).cache, PassFd, PassBlock(j)) :
                     ~PassTo(j).cache[s].dirty
            /\ last.op = "write" =>
                  (Issued(j, "pread") <=> Cardinality(Run(j)) < BLOCK_SIZE)

\* C26 as stated: every block a chunk of a successful vtpc_write touched is
\* valid and dirty when the call returns; a slot filled by a read miss is
\* clean; a write miss reads the block if and only if its chunk covers only
\* part of it.
C26_DirtyAsStated ==
    /\ MissReads
    /\ Transferring /\ last.op = "write" /\ last.ret >= 0 =>
          \A j \in Passes :
             \E s \in Holding(cache, PassFd, PassBlock(j)) : cache[s].dirty

\* Pass k of the latest call evicted the block pass j had touched.
EvictedBy(j, k) ==
    /\ j < k /\ Miss(k)
    /\ Selected(PassFrom(k).cache) \in Holding(PassFrom(k).cache, PassFd, PassBlock(j))

\* C26: every block a chunk of a successful vtpc_write touched is valid and
\* dirty when the chunk is done, and still so when the call returns unless a
\* later chunk of the same call evicted it; a slot filled by a read miss is
\* clean; a write miss reads the block if and only if its chunk covers only
\* part of it.
C26_Dirty ==
    /\ MissReads
    /\ Transferring /\ last.op = "write" /\ last.ret >= 0 =>
          \A j \in Passes :
             /\ \E s \in Holding(PassTo(j).cache, PassFd, PassBlock(j)) :
                   PassTo(j).cache[s].dirty
             /\ \/ \E s \in Holding(cache, PassFd, PassBlock(j)) : cache[s].dirty
                \/ \E k \in Passes : EvictedBy(j, k)

\* A write of two chunks has returned with the block of its first chunk
\* evicted by the second, and the second chunk, covering part of its block,
\* has read the block first.
C26_Witness ==
    /\ Transferring /\ last.op = "write" /\ last.ret >= 0
    /\ \E j, k \in Passes :
          /\ EvictedBy(j, k)
          /\ Holding(cache, PassFd, PassBlock(j)) = {}
          /\ Issued(k, "pread") /\ ~Issued(j, "pread")


-----------------------------------------------------------------------------
(* The reference: each file a flat byte array, each handle a cursor.       *)

RefInit ==
    [files |-> [p \in Paths |-> <<>>],
     table |-> [h \in Handles |-> [path |-> "", pos |-> 0]],
     ret |-> 0, rbuf |-> <<>>]

\* Handle h names no open file of the reference.
RefBad(r, h) == h \notin Handles \/ r.table[h].path = ""

\* The reference after `call`, with what the call returns in ret and rbuf.
RefStep(r, call) ==
    LET h == call.h
        failed == [r EXCEPT !.ret = -1, !.rbuf = <<>>]
        pos == r.table[h].pos
        file == r.files[r.table[h].path]
    IN
    IF call.op = "open"
    THEN LET free == {x \in Handles : r.table[x].path = ""}
             new == Minimum(free)
         IN  IF free = {} THEN failed
             ELSE [files |-> IF call.trunc THEN [r.files EXCEPT ![call.path] = <<>>]
                             ELSE r.files,
                   table |-> [r.table EXCEPT ![new] = [path |-> call.path, pos |-> 0]],
                   ret |-> new, rbuf |-> <<>>]
    ELSE IF RefBad(r, h) THEN failed
    ELSE IF call.op = "close"
    THEN [r EXCEPT !.table[h] = [path |-> "", pos |-> 0], !.ret = 0, !.rbuf = <<>>]
    ELSE IF call.op = "read"
    THEN LET n == Max(0, Min(call.count, Len(file) - pos)) IN
         [r EXCEPT !.table[h].pos = pos + n, !.ret = n,
                   !.rbuf = SubSeq(file, pos + 1, pos + n)]
    ELSE IF call.op = "write"
    THEN [r EXCEPT !.files[r.table[h].path] = OsWrite(file, pos, call.wbuf),
                   !.table[h].pos = pos + Len(call.wbuf),
                   !.ret = Len(call.wbuf), !.rbuf = <<>>]
    ELSE IF call.op = "lseek"
    THEN LET target == IF call.whence = SEEK_SET THEN call.off
                       ELSE IF call.whence = SEEK_CUR THEN pos + call.off
                       ELSE IF call.whence = SEEK_END THEN Len(file) + call.off
                       ELSE -1
         IN  IF target < 0 THEN failed
             ELSE [r EXCEPT !.table[h].pos = target, !.ret = target, !.rbuf = <<>>]
    ELSE [r EXCEPT !.ret = 0, !.rbuf = <<>>]

\* The reference after the first k calls of the run.
RECURSIVE RefAfter(_)
RefAfter(k) == IF k = 0 THEN RefInit ELSE RefStep(RefAfter(k - 1), hist[k])

\* Up to and including call k no file has been open through two handles.
OneHandlePerFile(k) ==
    \A j \in 1 .. k + 1 : \A h \in Handles : IsOpen(j, h) => ~Aliased(j, h)

\* The latest call returned what the reference returns, and every handle
\* open in the reference has the reference's cursor and, as its tracked size,
\* the length of the reference's file.
Refines ==
    LET r == RefAfter(N) IN
    /\ last.ret = r.ret
    /\ last.rbuf = r.rbuf
    /\ \A h \in Handles :
          r.table[h].path # "" =>
             /\ open_files[h].os_fd # -1
             /\ open_files[h].current_offset = r.table[h].pos
             /\ open_files[h].file_size = Len(r.files[r.table[h].path])

\* C29 as stated: in every run in which no file is open through two handles
\* and no backing-store call (nor the allocation of the pool) fails, each call returns what the reference
\* returns, each read the reference's bytes, and cursors and tracked sizes are
\* the reference's.
C29_RefinementAsStated ==
    /\ N > 0 /\ OneHandlePerFile(N) /\ NoFailure(N)
    /\ \A k \in 1 .. N : hist[k].err # "ENOMEM"
    => Refines


-----------------------------------------------------------------------------
\* C30: once the pool is initialised, every valid slot belongs to the raw
\* descriptor of a handle that is open; and a vtpc_open that has just returned
\* a handle finds no valid slot tagged with the raw descriptor it was given.
C30_Owned ==
    /\ cache_initialized =>
          \A i \in Slots : cache[i].valid =>
             \E h \in Handles : OpenNow(h) /\ open_files[h].os_fd = cache[i].fd
    /\ N > 0 /\ last.op = "open" /\ last.ret \in Handles =>
          \A i \in Slots : ~Owns(open_files[last.ret].os_fd, i)

\* A handle with two dirty blocks in the pool was closed, and the next open,
\* of another file, was given the raw descriptor of the closed handle.
C30_Witness ==
    /\ N >= 4 /\ last.op = "open" /\ last.ret \in Handles
    /\ hist[N - 1].op = "close" /\ IsOpen(N - 1, hist[N - 1].h)
    /\ Cardinality(WriteBacks(hist[N - 1])) = 2
    /\ open_files[last.ret].os_fd = hist[N - 1].before[hist[N - 1].h].os_fd
    /\ last.path # FileOf(N - 1, hist[N - 1].h)


-----------------------------------------------------------------------------
(* Two threads.  vtpc.c takes no lock, so the statements of two calls made *)
(* by two threads interleave.  After a prefix of calls made one at a time, *)
(* each thread makes one vtpc_read or vtpc_write of one byte on an open    *)
(* handle, a statement group at a time: the handle check with the lookup,  *)
(* the scan of evict_block, its write-back, its invalidation, the pread,   *)
(* the tagging of the slot, the counter of a hit, and the copy with the    *)
(* cursor update.  Nothing fails here.                                     *)

\* Two handles, on one file or two; handle 0 fills the pool with two dirty
\* blocks and goes back to the start.
ThreadScript ==
    << [Quiet EXCEPT !.ops = {"open"}, !.paths = {"A"}],
       [Quiet EXCEPT !.ops = {"open"}, !.paths = Paths],
       [Quiet EXCEPT !.ops = {"write", "lseek"}, !.handles = {0},
                     !.counts = {CACHE_SIZE_BLOCKS * BLOCK_SIZE}, !.vals = {0},
                     !.seeks = Rewind],
       [Quiet EXCEPT !.ops = {"lseek"}, !.handles = {0}, !.seeks = Rewind] >>

At(t, pc) == threads[t].pc = pc
Goto(t, pc) == threads' = [threads EXCEPT ![t].pc = pc]
Block(t) == threads[t].offset \div BLOCK_SIZE

\* The record of the call thread t has made.
ThreadCall(t, ret) ==
    [CallOn(threads[t].op, threads[t].h) EXCEPT !.count = 1, !.ret = ret]

\* Handle check, cursor and size, and the lookup of the block of the cursor.
Enter(t) ==
    /\ At(t, "idle") /\ ~More(ThreadScript)
    /\ \E op \in {"read", "write"}, h \in Handles :
          /\ ~BadHandle(h)
          /\ LET f == open_files[h]
                 hit == find_cache_block(cache, f.os_fd, f.current_offset \div BLOCK_SIZE)
                 eof == op = "read" /\ f.current_offset >= f.file_size
                 me == [pc |-> IF eof THEN "done" ELSE IF hit # -1 THEN "hit" ELSE "scan",
                        op |-> op, h |-> h, os_fd |-> f.os_fd,
                        offset |-> f.current_offset, idx |-> hit]
             IN  /\ threads' = [threads EXCEPT ![t] = me]
                 /\ hist' = IF eof THEN Append(hist, [CallOn(op, h) EXCEPT !.count = 1])
                            ELSE hist
    /\ UNCHANGED <<cache_initialized, cache, open_files, disk, os_fds, alive,
                   walk>>

\* evict_block: the scan, and the test of the dirty flag of the candidate.
Scan(t) ==
    /\ At(t, "scan")
    /\ LET s == EvictScan(cache, 0, -1, 0)
           idx == IF s.invalid # -1 THEN s.invalid ELSE s.candidate
       IN  threads' = [threads EXCEPT
                          ![t].idx = idx,
                          ![t].pc = IF s.invalid # -1 THEN "fetch"
                                    ELSE IF cache[idx].dirty THEN "write_back"
                                    ELSE "reclaim"]
    /\ UNCHANGED <<cache_initialized, cache, open_files, disk, os_fds, alive, hist,
                   walk>>

\* evict_block: lseek and write of the candidate, as the slot is tagged now.
WriteBack(t) ==
    /\ At(t, "write_back")
    /\ LET cb == cache[threads[t].idx] IN
       disk' = OsWriteBlock(disk, cb.fd, cb.block_index * BLOCK_SIZE, cb.data, "ok").disk
    /\ Goto(t, "reclaim")
    /\ UNCHANGED <<cache_initialized, cache, open_files, os_fds, alive, hist,
                   walk>>

\* evict_block: the candidate is invalidated and handed to the caller.
Reclaim(t) ==
    /\ At(t, "reclaim")
    /\ cache' = [cache EXCEPT ![threads[t].idx].valid = FALSE,
                              ![threads[t].idx].dirty = FALSE,
                              ![threads[t].idx].frequency = 0]
    /\ Goto(t, "fetch")
    /\ UNCHANGED <<cache_initialized, open_files, disk, os_fds, alive, hist,
                   walk>>

\* The pread into the buffer of the slot, and the zero-fill after it.
Fetch(t) ==
    /\ At(t, "fetch")
    /\ cache' = [cache EXCEPT ![threads[t].idx].data =
                    ZeroFilled(OsReadBlock(disk, threads[t].os_fd,
                                           Block(t) * BLOCK_SIZE, "ok").bytes)]
    /\ Goto(t, "tag")
    /\ UNCHANGED <<cache_initialized, open_files, disk, os_fds, alive, hist,
                   walk>>

\* The slot is tagged with the block and made valid.
Tag(t) ==
    /\ At(t, "tag")
    /\ cache' = [cache EXCEPT ![threads[t].idx] =
                    [@ EXCEPT !.valid = TRUE, !.fd = threads[t].os_fd,
                              !.block_index = Block(t), !.dirty = FALSE,
                              !.frequency = 1]]
    /\ Goto(t, "copy")
    /\ UNCHANGED <<cache_initialized, open_files, disk, os_fds, alive, hist,
                   walk>>

\* A hit counts the access.
Touch(t) ==
    /\ At(t, "hit")
    /\ cache' = [cache EXCEPT ![threads[t].idx].frequency = @ + 1]
    /\ Goto(t, "copy")
    /\ UNCHANGED <<cache_initialized, open_files, disk, os_fds, alive, hist,
                   walk>>

\* The memcpy between the slot and the caller's byte, the dirty flag of a
\* write, the cursor update and the return.
Copy(t) ==
    /\ At(t, "copy")
    /\ LET idx == threads[t].idx
           h == threads[t].h
           at == threads[t].offset % BLOCK_SIZE
           byte == Pattern(IF t = "T1" THEN 0 ELSE NumVals - 1, 1)
       IN  IF threads[t].op = "read"
           THEN /\ hist' = Append(hist, [ThreadCall(t, 1) EXCEPT
                                            !.rbuf = <<cache[idx].data[at + 1]>>])
                /\ open_files' = [open_files EXCEPT ![h].current_offset = @ + 1]
                /\ UNCHANGED cache
           ELSE /\ hist' = Append(hist, [ThreadCall(t, 1) EXCEPT !.wbuf = byte])
                /\ open_files' = Advance(open_files, h, 1)
                /\ cache' = [cache EXCEPT ![idx].data = SetData(@, at, byte),
                                          ![idx].dirty = TRUE]
    /\ Goto(t, "done")
    /\ UNCHANGED <<cache_initialized, disk, os_fds, alive,
                   walk>>

NextThreads ==
    \/ DoOpen(ThreadScript) \/ DoWrite(ThreadScript) \/ DoLseek(ThreadScript)
    \/ \E t \in Threads :
          \/ Enter(t) \/ Scan(t) \/ WriteBack(t) \/ Reclaim(t)
          \/ Fetch(t) \/ Tag(t) \/ Touch(t) \/ Copy(t)

SpecThreads == Init /\ [][NextThreads]_vars

\* Thread t has been handed slot i by evict_block and has not finished
\* repopulating it; thread t is working on slot i.
Repopulating(t, i) == threads[t].idx = i /\ threads[t].pc \in {"fetch", "tag"}
Using(t, i) ==
    /\ threads[t].idx = i
    /\ threads[t].pc \in {"write_back", "reclaim", "fetch", "tag", "hit", "copy"}

\* C27 as stated: with two threads, no operation works on a slot another
\* operation is in the middle of repopulating, and at no time are two valid
\* slots tagged with the same (raw descriptor, block index).
C27_AtomicAsStated ==
    /\ \A t, u \in Threads : \A i \in Slots :
          t # u /\ Repopulating(t, i) => ~Using(u, i)
    /\ \A i, j \in Slots :
          i # j /\ cache[i].valid /\ cache[j].valid
          => cache[i].fd # cache[j].fd \/ cache[i].block_index # cache[j].block_index

\* C28 as stated: in every interleaving, when evict_block hands over a slot
\* that holds a valid dirty block, the backing store of the block's owner
\* holds the contents of the block.
C28_WriteBackFirstAsStated ==
    [][\A t \in Threads :
          At(t, "reclaim") /\ threads'[t].pc = "fetch"
          => LET cb == cache[threads[t].idx] IN
             cb.valid /\ cb.dirty
             => AsBlock(Stored(disk, cb.fd, cb.block_index * BLOCK_SIZE)) = cb.data]_vars


-----------------------------------------------------------------------------
(* Clean blocks and the backing store.                                     *)

\* Every write to the backing store made so far transferred the whole block.
WritesOk ==
    \A k \in 1 .. N : \A c \in 1 .. Len(hist[k].calls) :
        IsBlockWrite(hist[k].calls[c]) => CallOk(hist[k].calls[c])

\* Every valid slot that is not dirty holds what the backing store of its
\* descriptor holds at the offset of its block, zeros past the end.
Mirrored ==
    \A i \in Slots :
        cache[i].valid /\ ~cache[i].dirty
        => cache[i].data = AsBlock(Stored(disk, cache[i].fd,
                                          cache[i].block_index * BLOCK_SIZE))

\* C31 as stated: in every state in which no file is open through two handles
\* and every write to the backing store so far has succeeded in full, each
\* valid slot that is not dirty equals the backing store at block index x
\* block size, padded with zeros past the end of the store.
C31_MirrorAsStated ==
    /\ \A h \in Handles : OpenNow(h) => ~Aliased(N + 1, h)
    /\ WritesOk
    => Mirrored

\* C31 amended: the same, in every state of a run in which no file has been
\* open through two handles at any time so far.
C31_Mirror ==
    OneHandlePerFile(N) /\ WritesOk => Mirrored

\* No file has ever been open through two handles, every backing write has
\* succeeded, and a clean block that a flush has written back sits in the
\* pool next to a block of the other file.
C31_Witness ==
    /\ N > 0 /\ OneHandlePerFile(N) /\ WritesOk
    /\ \E j \in 1 .. N : hist[j].op = "fsync" /\ WriteBacks(hist[j]) # {} /\ hist[j].ret = 0
    /\ \E i, j \in Slots :
          /\ cache[i].valid /\ ~cache[i].dirty /\ cache[i].data # AsBlock(<<>>)
          /\ cache[j].valid /\ cache[j].fd # cache[i].fd


-----------------------------------------------------------------------------
(* Two files side by side.                                                 *)

\* Handle 0 is on file A and writes the buffer of value 0; handle 1 is on
\* file B and writes the buffer of the last value.  The two take turns, each
\* call evicting blocks of the other, and handle 0 reads at the end.
DiscloseScript ==
    LET own == [Quiet EXCEPT !.handles = {0}, !.vals = {0},
                             !.counts = {1, BLOCK_SIZE + 1},
                             !.seeks = Rewind, !.faults = MaxFaults]
        other == [Quiet EXCEPT !.handles = {1}, !.vals = {NumVals - 1},
                               !.counts = {1, CACHE_SIZE_BLOCKS * BLOCK_SIZE},
                               !.seeks = Rewind, !.faults = MaxFaults]
    IN  << [Quiet EXCEPT !.ops = {"open"}, !.paths = {"A"}],
           [Quiet EXCEPT !.ops = {"open"}, !.paths = {"B"}],
           [own EXCEPT !.ops = {"write"}],
           [other EXCEPT !.ops = {"write", "fsync"}],
           [own EXCEPT !.ops = {"write", "lseek", "fsync"}],
           [other EXCEPT !.ops = {"write", "lseek", "close"}],
           [own EXCEPT !.ops = {"lseek"}],
           [own EXCEPT !.ops = {"read", "write"}],
           [own EXCEPT !.ops = {"read"}] >>

NextDisclose ==
    \/ DoOpen(DiscloseScript) \/ DoWrite(DiscloseScript) \/ DoRead(DiscloseScript)
    \/ DoLseek(DiscloseScript) \/ DoFsync(DiscloseScript) \/ DoClose(DiscloseScript)

SpecDisclose == Init /\ [][NextDisclose]_vars

\* The bytes written, before call k, through handles open on the file of the
\* handle of call k.
OwnBytes(k) ==
    UNION {{hist[j].wbuf[x] : x \in 1 .. Len(hist[j].wbuf)} :
           j \in {i \in 1 .. k - 1 :
                    /\ hist[i].op = "write" /\ IsOpen(i, hist[i].h)
                    /\ FileOf(i, hist[i].h) = FileOf(k, hist[k].h)}}

\* The bytes written before call k through handles open on other files.
ForeignBytes(k) ==
    UNION {{hist[j].wbuf[x] : x \in 1 .. Len(hist[j].wbuf)} :
           j \in {i \in 1 .. k - 1 :
                    /\ hist[i].op = "write" /\ IsOpen(i, hist[i].h)
                    /\ FileOf(i, hist[i].h) # FileOf(k, hist[k].h)}}

\* C32: every byte a vtpc_read on an open handle returns is a byte of the
\* handle's own file: one written through a handle on that file, or a zero of
\* a hole or of the fill past the end; never a byte written to another file
\* and never a byte left in a slot by its last occupant.  (vtpc.c copies
\* bytes and never branches on one, so two runs that differ only in what is
\* written to other files make the same calls with the same outcomes and
\* differ in a returned byte exactly where that byte comes from such data.)
C32_NoDisclosure ==
    \A k \in 1 .. N :
        hist[k].op = "read" /\ IsOpen(k, hist[k].h)
        => \A x \in 1 .. Len(hist[k].rbuf) :
              /\ hist[k].rbuf[x] \in OwnBytes(k) \cup {0}
              /\ hist[k].rbuf[x] \notin ForeignBytes(k) \cup {Junk}

\* A read fetched a block of its own file into a slot from which it had just
\* evicted a dirty block of the other file, and returned the bytes written
\* to its own file.
C32_Witness ==
    /\ N > 0 /\ last.op = "read" /\ IsOpen(N, last.h) /\ last.ret > 0
    /\ \E e \in 1 .. Len(last.evicted) :
          /\ last.evicted[e].fd # last.before[last.h].os_fd
          /\ last.evicted[e].dirty
          /\ \E x \in 1 .. BLOCK_SIZE : last.evicted[e].data[x] \in ForeignBytes(N)
    /\ \E x \in 1 .. Len(last.rbuf) : last.rbuf[x] \in OwnBytes(N)
    /\ ForeignBytes(N) \cap OwnBytes(N) = {}


-----------------------------------------------------------------------------
\* C33: a vtpc_read, vtpc_write, vtpc_lseek or vtpc_fsync on an open handle
\* leaves the cursor and the tracked size of every other open handle as they
\* were, also when it evicts blocks of that handle; and a vtpc_fsync leaves
\* every block owned by another raw descriptor as it was, dirty flag and
\* contents.
C33_Isolation ==
    [][hist' # hist /\ hist'[N + 1].op \in {"read", "write", "lseek", "fsync"}
       /\ OpenNow(hist'[N + 1].h)
       => LET call == hist'[N + 1] IN
          /\ \A g \in Handles \ {call.h} :
                OpenNow(g) =>
                   /\ open_files'[g].current_offset = open_files[g].current_offset
                   /\ open_files'[g].file_size = open_files[g].file_size
          /\ call.op = "fsync" =>
                \A i \in Slots :
                   cache[i].valid /\ cache[i].fd # open_files[call.h].os_fd
                   => cache'[i] = cache[i]]_vars

\* A transfer on one handle has evicted a dirty block of another open handle
\* whose cursor and tracked size are past 0.
C33_Witness ==
    /\ N > 0 /\ last.op \in {"read", "write"} /\ IsOpen(N, last.h)
    /\ \E g \in Handles \ {last.h} :
          /\ IsOpen(N, g) /\ OpenNow(g)
          /\ open_files[g].current_offset > 0 /\ open_files[g].file_size > 0
          /\ open_files[g] = last.before[g]
          /\ \E e \in 1 .. Len(last.evicted) :
                last.evicted[e].fd = open_files[g].os_fd /\ last.evicted[e].dirty


-----------------------------------------------------------------------------
(* A failing pread in vtpc_read.                                           *)

\* The latest call is a vtpc_read on an open handle whose pread failed.
ReadFailed == Transferring /\ last.op = "read" /\ FailedRead(last)

\* The block that pass j of call k works on.
BlockAt(k, j) == (PosAt(k) + hist[k].chunks[j].done) \div BLOCK_SIZE

\* C34: when the pread of a miss fails in vtpc_read, the call returns -1,
\* cursor and tracked size of the handle are as before, the slot that was
\* selected is invalid and not dirty, no valid slot is tagged with the block,
\* and a read that follows on the handle misses on that block again.
C34_ReadFailure ==
    /\ ReadFailed =>
          LET j == Len(last.chunks) IN
          /\ last.ret = -1
          /\ open_files[last.h] = last.before[last.h]
          /\ Miss(j)
          /\ ~cache[Selected(PassFrom(j).cache)].valid
          /\ ~cache[Selected(PassFrom(j).cache)].dirty
          /\ Holding(cache, PassFd, PassBlock(j)) = {}
    /\ N > 1 /\ Transferring /\ last.op = "read" /\ hist[N - 1].op = "read"
       /\ hist[N - 1].h = last.h /\ IsOpen(N - 1, last.h) /\ FailedRead(hist[N - 1])
       => \A j \in Passes :
             PassBlock(j) = BlockAt(N - 1, Len(hist[N - 1].chunks))
             => Miss(j) /\ Issued(j, "pread")

\* A read of two blocks hit the first, evicted a dirty block to fetch the
\* second, and failed in the pread.
C34_Witness ==
    /\ ReadFailed /\ Len(last.chunks) > 1
    /\ Hit(1)
    /\ Issued(Len(last.chunks), "evict_write")



-----------------------------------------------------------------------------
\* C35 as stated: a vtpc_open that fails because the table is full, or because the
\* open or the fstat of the backing store fails, returns -1; every open
\* handle keeps its table entry (descriptor, cursor, size), every other entry
\* is free, the pool holds the blocks it held, and the raw descriptors that
\* are open are those that were.
C35_OpenFailureAsStated ==
    [][hist' # hist /\ hist'[N + 1].op = "open" /\ hist'[N + 1].ret \notin Handles
       /\ hist'[N + 1].err # "ENOMEM"
       => /\ hist'[N + 1].ret = -1
          /\ \A h \in Handles :
                IF OpenNow(h) THEN open_files'[h] = open_files[h]
                ELSE open_files'[h].os_fd = -1
          /\ \A i \in Slots :
                /\ cache'[i].valid = cache[i].valid
                /\ cache[i].valid => cache'[i] = cache[i]
          /\ os_fds' = os_fds]_vars



-----------------------------------------------------------------------------
\* C36 as stated: a vtpc_fsync made right after a vtpc_fsync of the same open
\* handle that returned 0 writes no block back and leaves the pool, the table
\* and the backing store as they were.
C36_FsyncTwiceAsStated ==
    [][hist' # hist /\ N > 0 /\ hist'[N + 1].op = "fsync" /\ last.op = "fsync"
       /\ hist'[N + 1].h = last.h /\ IsOpen(N, last.h) /\ last.ret = 0
       => /\ WriteBacks(hist'[N + 1]) = {}
          /\ UNCHANGED <<cache, open_files, disk>>]_vars



-----------------------------------------------------------------------------
\* C37: in every reachable state no invalid slot is dirty, and every valid
\* slot has an access counter of at least 1.
C37_SlotState ==
    \A i \in Slots :
        /\ ~cache[i].valid => ~cache[i].dirty
        /\ cache[i].valid => cache[i].frequency >= 1

\* A close whose write-back failed has invalidated a block that is still not
\* on the backing store, next to a valid dirty block of the other handle.
C37_Witness ==
    /\ N > 0 /\ last.op = "close" /\ IsOpen(N, last.h)
    /\ \E c \in WriteBacks(last) : ~CallOk(last.calls[c])
    /\ \E i, j \in Slots :
          /\ ~cache[i].valid /\ cache[i].fd = last.before[last.h].os_fd
          /\ cache[j].valid /\ cache[j].dirty /\ cache[j].frequency >= 1


-----------------------------------------------------------------------------
(* The chunk loops.                                                        *)

\* The bytes pass j of the latest call transferred.
Moved(j) == PassTo(j).done - PassFrom(j).done

\* The blocks that the n bytes from offset c lie in.
Touched(c, n) == IF n <= 0 THEN 0 ELSE (c + n - 1) \div BLOCK_SIZE - c \div BLOCK_SIZE + 1

\* The bytes the latest call has to transfer: all of a write, and of a read
\* what lies before the tracked size.
Request ==
    IF last.op = "write" THEN last.count
    ELSE Max(0, Min(last.count, SizeAt(N) - PosAt(N)))

\* C38: every pass of the chunk loop of a vtpc_read or vtpc_write that does
\* not fail transfers at least one byte and at most a block, all of them in
\* one block; a call makes no more passes than its range touches blocks, and
\* a call that completes its request of n bytes from cursor c has made as
\* many passes as [c, c + n) touches blocks.
C38_ChunkLoop ==
    Transferring /\ last.ret # NoReturn =>
       /\ \A j \in Passes :
             j < Len(last.chunks) \/ last.ret >= 0
             => /\ Moved(j) >= 1 /\ Moved(j) <= BLOCK_SIZE
                /\ PassOffset(j) \div BLOCK_SIZE
                     = (PassOffset(j) + Moved(j) - 1) \div BLOCK_SIZE
       /\ Len(last.chunks) <= Touched(PosAt(N), Request)
       /\ last.ret >= 0 =>
             /\ last.ret = Request
             /\ Len(last.chunks) = Touched(PosAt(N), Request)

\* A transfer that started inside a block and ended inside another, over
\* more blocks than the pool holds, and was completed.
C38_Witness ==
    /\ Transferring /\ last.ret = Request
    /\ PosAt(N) % BLOCK_SIZE # 0 /\ (PosAt(N) + Request) % BLOCK_SIZE # 0
    /\ Len(last.chunks) > CACHE_SIZE_BLOCKS
    /\ Len(last.chunks) = Touched(PosAt(N), Request)


-----------------------------------------------------------------------------
(* The graph benchmark (lab/vtpc/src/ema_traverse_graph.cpp): the          *)
(* breadth-first traversal TraverseAndModify over the graph file.  The     *)
(* file is the environment: node records with a value and an edge list,    *)
(* edge records with a target id and a direction.                          *)

\* enum class EdgeDirection
Bidirectional == 0
Outgoing == 1
Incoming == 2
Directions == {Bidirectional, Outgoing, Incoming}

\* Bounds: nodes of the graph, the largest max_depth, and the largest value
\* of a node (std::int64_t, scaled down: values are ValueMin .. ValueMax).
NodeCount == 3
DepthBound == 2
ValueMax == 1
ValueMin == -ValueMax - 1

Nodes == 0 .. NodeCount - 1

\* The elements of a finite set of numbers in ascending order.
RECURSIVE Ascending(_)
Ascending(S) ==
    IF S = {} THEN <<>> ELSE <<Minimum(S)>> \o Ascending(S \ {Minimum(S)})

\* The edge lists of a graph file: for every ordered pair of nodes no edge
\* record or one of either direction, and in the list of node 0 a record
\* whose target id is not a node of the graph.
NoEdge == -1
Links == [{p \in Nodes \X Nodes : p[1] # p[2]} -> Directions \cup {NoEdge}]
EdgesOf(link, u) ==
    LET to == Ascending({v \in Nodes : v # u /\ link[<<u, v>>] # NoEdge})
        own == [x \in 1 .. Len(to) |-> [target_id |-> to[x], direction |-> link[<<u, to[x]>>]]]
    IN  IF u = 0 THEN <<[target_id |-> NodeCount, direction |-> Outgoing]>> \o own
        ELSE own

\* The node values of a graph file: the nodes of `holders` hold the target
\* value, the others a value that is not the target.
ValuesOf(holders, target) ==
    [n \in Nodes |-> IF n \in holders THEN target
                     ELSE IF target = ValueMin THEN ValueMax ELSE ValueMin]

\* The traversal about to be called on a graph file with its options.
WalkOn(link, holders, target, depth, start) ==
    [pc |-> "start",
     edges |-> [u \in Nodes |-> EdgesOf(link, u)],
     file |-> ValuesOf(holders, target), values |-> ValuesOf(holders, target),
     target_value |-> target, max_depth |-> depth, start_node |-> start,
     visited |-> {}, bfs |-> <<>>, ret |-> FALSE,
     pushed |-> <<>>, followed |-> <<>>, expanded |-> <<>>]

InitTraverse ==
    /\ cache_initialized = FALSE
    /\ cache = [i \in Slots |-> ZeroBlock]
    /\ open_files = [h \in Handles |-> ZeroFile]
    /\ disk = [p \in Paths |-> <<>>]
    /\ os_fds = [fd \in OsFds |-> IF fd = 0 THEN Stdin ELSE Closed]
    /\ alive = TRUE
    /\ hist = <<>>
    /\ threads = [t \in Threads |-> Idle]
    /\ \E link \in Links, holders \in {H \in SUBSET Nodes : Cardinality(H) <= 1},
          target \in {0, ValueMax}, depth \in 0 .. DepthBound :
          walk = WalkOn(link, holders, target, depth, 0)

\* The loop over the edge records of a node dequeued at `depth`: a record
\* is skipped if it is Incoming, if its target is no node of the graph, or if
\* its target has been visited; otherwise the target is marked and enqueued.
RECURSIVE PushEdges(_, _, _)
PushEdges(w, edges, depth) ==
    IF edges = <<>> THEN w
    ELSE LET edge == Head(edges)
             skip == \/ edge.direction = Incoming
                     \/ edge.target_id >= NodeCount
                     \/ edge.target_id \in w.visited
             w1 == IF skip THEN w
                   ELSE [w EXCEPT !.visited = @ \cup {edge.target_id},
                                  !.bfs = Append(@, <<edge.target_id, depth + 1>>),
                                  !.pushed = Append(@, edge.target_id),
                                  !.followed = Append(@, edge)]
         IN  PushEdges(w1, Tail(edges), depth)

\* The start node is enqueued and marked.
StartWalk ==
    /\ walk.pc = "start"
    /\ walk' = [walk EXCEPT !.pc = "loop",
                            !.bfs = <<<<walk.start_node, 0>>>>,
                            !.visited = {walk.start_node},
                            !.pushed = <<walk.start_node>>]
    /\ UNCHANGED <<cache_initialized, cache, open_files, disk, os_fds, alive, hist,
                   threads>>

\* target_value + 1 in std::int64_t: the sum, or, when the target is the
\* largest value, an overflow, which is undefined: the build wraps ("wrap")
\* or traps ("trap").
Successors(target) ==
    IF target < ValueMax THEN {[how |-> "sum", value |-> target + 1]}
    ELSE {[how |-> "wrap", value |-> ValueMin], [how |-> "trap", value |-> 0]}

\* One pass of the loop: the front of the queue is taken and its node record
\* read; a node holding the target is rewritten and the traversal returns
\* true; a node at max_depth is not expanded; otherwise its edge records are
\* read and gone through.  A read or write that fails throws.
Visit ==
    /\ walk.pc = "loop" /\ walk.bfs # <<>>
    /\ LET node_id == Head(walk.bfs)[1]
           depth == Head(walk.bfs)[2]
           w == [walk EXCEPT !.bfs = Tail(@)]
       IN  \E io \in {"ok", "err"} :
           IF io = "err" THEN walk' = [w EXCEPT !.pc = "threw"]
           ELSE IF w.file[node_id] = w.target_value
           THEN \E s \in Successors(w.target_value) :
                   walk' = IF s.how = "trap" THEN [w EXCEPT !.pc = "trapped"]
                           ELSE [w EXCEPT !.file[node_id] = s.value, !.ret = TRUE,
                                          !.pc = "returned"]
           ELSE IF depth >= w.max_depth THEN walk' = w
           ELSE walk' = PushEdges([w EXCEPT !.expanded = Append(@, <<node_id, depth>>)],
                                  w.edges[node_id], depth)
    /\ UNCHANGED <<cache_initialized, cache, open_files, disk, os_fds, alive, hist,
                   threads>>

\* The queue is empty: the traversal returns false.
Finish ==
    /\ walk.pc = "loop" /\ walk.bfs = <<>>
    /\ walk' = [walk EXCEPT !.pc = "returned", !.ret = FALSE]
    /\ UNCHANGED <<cache_initialized, cache, open_files, disk, os_fds, alive, hist,
                   threads>>

NextTraverse == StartWalk \/ Visit \/ Finish

\* The traversal is one thread running on: a pass that can be made is made.
SpecTraverse == InitTraverse /\ [][NextTraverse]_vars /\ WF_vars(NextTraverse)


\* The nodes an edge record of node u leads to when it is followed: records
\* that are not Incoming and whose target is a node of the graph.
Follows(u) ==
    {walk.edges[u][x].target_id : x \in {y \in 1 .. Len(walk.edges[u]) :
        /\ walk.edges[u][y].direction # Incoming
        /\ walk.edges[u][y].target_id \in Nodes}}

\* The nodes within k hops of the start node.
RECURSIVE Within(_)
Within(k) ==
    IF k = 0 THEN {walk.start_node}
    ELSE Within(k - 1) \cup UNION {Follows(u) : u \in Within(k - 1)}

\* A node holding the target value lies within max_depth hops of the start.
InReach == \E n \in Within(walk.max_depth) : walk.values[n] = walk.target_value

\* The traversal has left its loop: it returned, a read or write threw, or
\* the process was stopped.
Ended == walk.pc \in {"returned", "threw", "trapped"}

\* What the traversal has done so far is what the claim allows.
WalkAsStated ==
    /\ \A x, y \in 1 .. Len(walk.pushed) : x # y => walk.pushed[x] # walk.pushed[y]
    /\ \A x \in 1 .. Len(walk.followed) :
          /\ walk.followed[x].direction # Incoming
          /\ walk.followed[x].target_id \in Nodes
    /\ \A x \in 1 .. Len(walk.expanded) : walk.expanded[x][2] < walk.max_depth
    /\ Ended /\ walk.pc # "threw" =>
          /\ walk.pc = "returned"
          /\ walk.ret <=> InReach
          /\ walk.ret =>
                \E n \in Nodes :
                   /\ walk.values[n] = walk.target_value
                   /\ walk.file[n] = walk.target_value + 1
                   /\ \A m \in Nodes \ {n} : walk.file[m] = walk.values[m]

\* C39 as stated: the traversal enqueues no node twice, follows no Incoming
\* edge and no edge to an id outside the graph, expands no node at depth
\* max_depth or deeper, always ends, and, unless a read or write fails,
\* returns true, with the value of the node it found rewritten to target + 1,
\* exactly when a node holding the target value is within max_depth hops of
\* the start node.
C39_TraversalAsStated == [](walk.pc # "off" => WalkAsStated) /\ <>Ended

====
